---- MODULE Spec2Model ----
(***************************************************************************)
(* A model of rest_api_faker's path rewriter (rewriter.ts, the revision    *)
(* that orders the rules by specificity), query engine (query.ts),         *)
(* relationships (relationships.ts) and GET /:resource route (router.ts).  *)
(*                                                                         *)
(* JavaScript strings are modelled as sequences of one-character strings,  *)
(* so that splitting, searching and replacing are computed character by    *)
(* character as the code does.                                             *)
(***************************************************************************)
EXTENDS Integers, Sequences, FiniteSets, TLC

VARIABLES
    routesFile,   \* index into RoutesFiles of the file given with --routes (0: none yet)
    loadError,    \* the error loadRewriteRules threw, or NoError
    sortedRules,  \* createRewriterMiddleware's closure: the rules it iterates over
    started,      \* createServer returned (it rethrows a load error)
    reqUrl,       \* req.url as the middleware received it
    outUrl,       \* req.url when the middleware called next()
    handled,      \* a request went through the middleware
    qData,        \* applyQuery's `data` argument
    qOptions,     \* applyQuery's `options` argument (a QueryOptions)
    qSorted,      \* applyQuery's local `result` after the sort, before the window
    qResult,      \* applyQuery's returned data
    qTotal,       \* applyQuery's returned total
    qDone,        \* applyQuery has been called
    dbData,       \* the store: db.data, a value per resource name
    reqResource,  \* req.params.resource of the last GET /:resource
    reqId,        \* req.params.id of the last GET /:resource/:id
    reqQuery,     \* req.query of that request, as the list of its entries
    queryOptions, \* the handler's parseQuery(req)
    resStatus,    \* the response's status (0: no response yet)
    resTotal,     \* the X-Total-Count header (<<>>: not set)
    resLink,      \* the Link header (<<>>: not set)
    resBody,      \* the JSON body
    relItems,     \* embedChildren's `items` argument
    relParent,    \* its `parentCollection` argument
    relChild,     \* its `childCollection` argument
    relSuffix,    \* its `foreignKeySuffix` argument
    relResult,    \* the list it returned
    relDone,      \* it has been called
    relExpanded,  \* expandParent's results for the lists embedded in relResult
    readOnly,     \* createRouter's options.readOnly
    reqMethod,    \* the method of the last request ("": none yet)
    reqChildren,  \* req.params.children of the last POST /:parent/:parentId/:children
    reqBody,      \* req.body of the last request with one
    dbCall        \* the last call of create, update, patch or delete on the store

rewriteVars == <<routesFile, loadError, sortedRules, started, reqUrl, outUrl, handled>>
queryVars == <<qData, qOptions, qSorted, qResult, qTotal, qDone>>
routerVars == <<dbData, reqResource, reqId, reqQuery, queryOptions,
                resStatus, resTotal, resLink, resBody>>
writeVars == <<readOnly, reqMethod, reqChildren, reqBody, dbCall>>
relationVars == <<relItems, relParent, relChild, relSuffix, relResult, relDone,
                  relExpanded>>
vars == <<routesFile, loadError, sortedRules, started, reqUrl, outUrl, handled,
          qData, qOptions, qSorted, qResult, qTotal, qDone,
          dbData, reqResource, reqId, reqQuery, queryOptions,
          resStatus, resTotal, resLink, resBody,
          relItems, relParent, relChild, relSuffix, relResult, relDone,
          relExpanded, readOnly, reqMethod, reqChildren, reqBody, dbCall>>

(***************************************************************************)
(* JavaScript string primitives                                            *)
(***************************************************************************)

\* s.slice(from) for a 0-based `from`, i.e. s without its first n characters
Drop(s, n) == SubSeq(s, n + 1, Len(s))

\* s.slice(0, n)
Take(s, n) == SubSeq(s, 1, n)

\* s.startsWith(p)
StartsWith(s, p) == Len(s) >= Len(p) /\ Take(s, Len(p)) = p

\* s.indexOf(p) + 1 (0 when p does not occur)
IndexOf(s, p) ==
    LET hits == {i \in 1..(Len(s) - Len(p) + 1) : SubSeq(s, i, i + Len(p) - 1) = p}
    IN  IF hits = {} THEN 0 ELSE CHOOSE i \in hits : \A j \in hits : i <= j

\* s.includes(p)
Includes(s, p) == IndexOf(s, p) # 0

\* s.split(c) for a one-character separator c
RECURSIVE Split(_, _)
Split(s, c) ==
    LET i == IndexOf(s, <<c>>)
    IN  IF i = 0 THEN <<s>> ELSE <<Take(s, i - 1)>> \o Split(Drop(s, i), c)

\* s.split(c, 2): the first two pieces of the full split; what follows a
\* second separator is dropped
SplitLimit2(s, c) ==
    LET pieces == Split(s, c)
    IN  IF Len(pieces) > 2 THEN Take(pieces, 2) ELSE pieces

\* ECMAScript GetSubstitution for a string pattern: $$, $&, $` and $' are
\* expanded in the replacement text, everything else is copied
RECURSIVE GetSubstitution(_, _, _, _)
GetSubstitution(matched, before, after, replacement) ==
    IF replacement = <<>> THEN <<>>
    ELSE IF Head(replacement) = "$" /\ Len(replacement) >= 2
              /\ replacement[2] \in {"$", "&", "`", "'"}
         THEN (CASE replacement[2] = "$" -> <<"$">>
                 [] replacement[2] = "&" -> matched
                 [] replacement[2] = "`" -> before
                 [] replacement[2] = "'" -> after)
              \o GetSubstitution(matched, before, after, Drop(replacement, 2))
         ELSE <<Head(replacement)>>
              \o GetSubstitution(matched, before, after, Tail(replacement))

\* s.replace(pattern, value) with a string pattern: the first occurrence only
Replace(s, pattern, value) ==
    LET i == IndexOf(s, pattern)
    IN  IF i = 0 THEN s
        ELSE LET before == Take(s, i - 1)
                 after == Drop(s, i - 1 + Len(pattern))
             IN  before \o GetSubstitution(pattern, before, after, value) \o after

\* String(n) for an integer n >= 0
Digit(d) == <<"0", "1", "2", "3", "4", "5", "6", "7", "8", "9">>[d + 1]

RECURSIVE NumToString(_)
NumToString(n) ==
    IF n < 10 THEN <<Digit(n)>> ELSE NumToString(n \div 10) \o <<Digit(n % 10)>>

(***************************************************************************)
(* rewriter.ts                                                             *)
(***************************************************************************)

\* the characters patternToRegex escapes: /[.+?^${}()|[\]\\]/
RegexSpecials == {".", "+", "?", "^", "$", "{", "}", "(", ")", "|", "[", "]", "\\"}

\* the two capture groups patternToRegex inserts, kept as single elements of
\* the regular expression's source
ParamGroup == "([^/]+)"
WildGroup == "(.*?)"

\* pattern.replace(/[.+?^${}()|[\]\\]/g, '\\$&')
RECURSIVE EscapeRegex(_)
EscapeRegex(p) ==
    IF p = <<>> THEN <<>>
    ELSE (IF Head(p) \in RegexSpecials THEN <<"\\", Head(p)>> ELSE <<Head(p)>>)
         \o EscapeRegex(Tail(p))

\* length of the longest prefix of s without a '/'
RECURSIVE SegmentRun(_)
SegmentRun(s) ==
    IF s = <<>> \/ Head(s) = "/" THEN 0 ELSE 1 + SegmentRun(Tail(s))

\* regexPattern.replace(/:([^/]+)/g, ...): every ':' followed by at least one
\* non-slash character becomes a group, and the run after ':' is the name
RECURSIVE ReplaceParams(_)
ReplaceParams(src) ==
    IF src = <<>> THEN [src |-> <<>>, params |-> <<>>]
    ELSE IF Head(src) = ":" /\ SegmentRun(Tail(src)) > 0
         THEN LET n == SegmentRun(Tail(src))
                  rest == ReplaceParams(Drop(src, n + 1))
              IN  [src |-> <<ParamGroup>> \o rest.src,
                   params |-> <<SubSeq(src, 2, n + 1)>> \o rest.params]
         ELSE LET rest == ReplaceParams(Tail(src))
              IN  [src |-> <<Head(src)>> \o rest.src, params |-> rest.params]

\* regexPattern.replace(/\*/g, ...): every '*' left becomes a group named
\* $1, $2, ... by the wildcard counter
RECURSIVE ReplaceWildcards(_, _)
ReplaceWildcards(src, wildcardCount) ==
    IF src = <<>> THEN [src |-> <<>>, params |-> <<>>]
    ELSE IF Head(src) = "*"
         THEN LET rest == ReplaceWildcards(Tail(src), wildcardCount + 1)
              IN  [src |-> <<WildGroup>> \o rest.src,
                   params |-> <<(<<"$">> \o NumToString(wildcardCount + 1))>> \o rest.params]
         ELSE LET rest == ReplaceWildcards(Tail(src), wildcardCount)
              IN  [src |-> <<Head(src)>> \o rest.src, params |-> rest.params]

\* patternToRegex: the source of the regular expression (between ^ and $) and
\* the params array: every :name in pattern order, then every $k
patternToRegex(pattern) ==
    LET named == ReplaceParams(EscapeRegex(pattern))
        wild == ReplaceWildcards(named.src, 0)
    IN  [regex |-> wild.src, params |-> named.params \o wild.params]

NoMatch == [ok |-> FALSE, captures |-> <<>>]

\* s.match(new RegExp('^' + regex + '$')): the backtracking matcher's first
\* success. ([^/]+) is greedy and tries its longest run first, (.*?) is lazy
\* and tries the empty string first; a backslash makes the next character a
\* literal. captures is match.slice(1).
RECURSIVE Match(_, _)
Match(regex, s) ==
    IF regex = <<>> THEN (IF s = <<>> THEN [ok |-> TRUE, captures |-> <<>>] ELSE NoMatch)
    ELSE IF Head(regex) = ParamGroup
    THEN LET good == {n \in 1..SegmentRun(s) : Match(Tail(regex), Drop(s, n)).ok}
         IN  IF good = {} THEN NoMatch
             ELSE LET n == CHOOSE k \in good : \A j \in good : j <= k
                  IN  [ok |-> TRUE,
                       captures |-> <<Take(s, n)>> \o Match(Tail(regex), Drop(s, n)).captures]
    ELSE IF Head(regex) = WildGroup
    THEN LET good == {n \in 0..Len(s) : Match(Tail(regex), Drop(s, n)).ok}
         IN  IF good = {} THEN NoMatch
             ELSE LET n == CHOOSE k \in good : \A j \in good : k <= j
                  IN  [ok |-> TRUE,
                       captures |-> <<Take(s, n)>> \o Match(Tail(regex), Drop(s, n)).captures]
    ELSE IF Head(regex) = "\\"
    THEN (IF s # <<>> /\ Head(s) = regex[2] THEN Match(Drop(regex, 2), Tail(s)) ELSE NoMatch)
    ELSE (IF s # <<>> /\ Head(s) = Head(regex) THEN Match(Tail(regex), Tail(s)) ELSE NoMatch)

\* decoding of one URLSearchParams name or value: '+' is a space (the model's
\* URLs carry no percent escapes)
RECURSIVE DecodePlus(_)
DecodePlus(s) ==
    IF s = <<>> THEN <<>>
    ELSE <<(IF Head(s) = "+" THEN " " ELSE Head(s))>> \o DecodePlus(Tail(s))

\* one name=value piece of a query string: split at the first '='
ParsePair(piece) ==
    LET i == IndexOf(piece, <<"=">>)
    IN  IF i = 0 THEN <<DecodePlus(piece), <<>>>>
        ELSE <<DecodePlus(Take(piece, i - 1)), DecodePlus(Drop(piece, i))>>

\* new URLSearchParams(query): the list of (name, value) pairs in order;
\* empty pieces between '&' are skipped
RECURSIVE ParsePieces(_)
ParsePieces(pieces) ==
    IF pieces = <<>> THEN <<>>
    ELSE (IF Head(pieces) = <<>> THEN <<>> ELSE <<ParsePair(Head(pieces))>>)
         \o ParsePieces(Tail(pieces))

URLSearchParams(query) == ParsePieces(Split(query, "&"))

\* urlParams.has(key)
ParamsHas(params, key) == \E i \in 1..Len(params) : params[i][1] = key

\* urlParams.get(key): the first value under key (has(key) is checked first)
ParamsGet(params, key) ==
    LET i == CHOOSE k \in 1..Len(params) :
                 params[k][1] = key /\ \A j \in 1..(k - 1) : params[j][1] # key
    IN  params[i][2]

\* url.split('?', 2)[0] and [1]; an absent query and an empty one are both
\* falsy in every test the code makes, and both are <<>> here
PathOf(url) == SplitLimit2(url, "?")[1]
QueryOf(url) == IF Len(SplitLimit2(url, "?")) >= 2 THEN SplitLimit2(url, "?")[2] ELSE <<>>

\* a loop over patternParams.entries() that captures the '*' values and
\* never compares a literal value
RECURSIVE QueryCaptures_noLiteralCheck(_, _)
QueryCaptures_noLiteralCheck(patternParams, urlParams) ==
    IF patternParams = <<>> THEN [ok |-> TRUE, captures |-> <<>>]
    ELSE LET key == Head(patternParams)[1]
             rest == QueryCaptures_noLiteralCheck(Tail(patternParams), urlParams)
         IN  IF ~ParamsHas(urlParams, key) \/ ~rest.ok THEN NoMatch
             ELSE IF Head(patternParams)[2] = <<"*">>
                  THEN [ok |-> TRUE,
                        captures |-> <<ParamsGet(urlParams, key)>> \o rest.captures]
                  ELSE rest

\* rewriteUrl's loop over patternParams.entries(): null as soon as a declared
\* key is missing or a literal value differs, otherwise the values captured
\* by the '*' entries, in order
RECURSIVE QueryCaptures(_, _)
QueryCaptures(patternParams, urlParams) ==
    IF patternParams = <<>> THEN [ok |-> TRUE, captures |-> <<>>]
    ELSE LET key == Head(patternParams)[1]
             patternValue == Head(patternParams)[2]
             rest == QueryCaptures(Tail(patternParams), urlParams)
         IN  IF ~ParamsHas(urlParams, key) THEN NoMatch
             ELSE IF patternValue = <<"*">>
                  THEN (IF rest.ok
                        THEN [ok |-> TRUE,
                              captures |-> <<ParamsGet(urlParams, key)>> \o rest.captures]
                        ELSE NoMatch)
                  ELSE IF ParamsGet(urlParams, key) # patternValue THEN NoMatch
                  ELSE rest

\* the first loop of rewriteUrl: result.replace('$' + (i + 1), captures[i])
RECURSIVE SubstituteCaptures(_, _, _)
SubstituteCaptures(result, captures, i) ==
    IF i > Len(captures) THEN result
    ELSE SubstituteCaptures(Replace(result, <<"$">> \o NumToString(i), captures[i]),
                            captures, i + 1)

\* the second loop of rewriteUrl: for every params[i] that does not start with
\* '$' and has a captures[i], result.replace(':' + params[i], captures[i])
RECURSIVE SubstituteParams(_, _, _, _)
SubstituteParams(result, params, captures, i) ==
    IF i > Len(params) THEN result
    ELSE SubstituteParams(
             IF params[i] # <<>> /\ ~StartsWith(params[i], <<"$">>) /\ i <= Len(captures)
             THEN Replace(result, <<":">> \o params[i], captures[i])
             ELSE result,
             params, captures, i + 1)

Null == [matched |-> FALSE, url |-> <<>>]

\* rewriteUrl(url, fromPattern, toPattern): Null, or the rewritten URL
rewriteUrl(url, fromPattern, toPattern) ==
    LET urlPath == PathOf(url)
        urlQuery == QueryOf(url)
        patternPath == PathOf(fromPattern)
        patternQuery == QueryOf(fromPattern)
        compiled == patternToRegex(patternPath)
        match == Match(compiled.regex, urlPath)
        query == IF patternQuery # <<>>
                 THEN QueryCaptures(URLSearchParams(patternQuery), URLSearchParams(urlQuery))
                 ELSE [ok |-> TRUE, captures |-> <<>>]
        captures == match.captures \o query.captures
        substituted == SubstituteParams(SubstituteCaptures(toPattern, captures, 1),
                                        compiled.params, captures, 1)
    IN  IF ~match.ok \/ ~query.ok THEN Null
        ELSE [matched |-> TRUE,
              url |-> IF patternQuery = <<>> /\ urlQuery # <<>>
                      THEN substituted \o <<"?">> \o urlQuery
                      ELSE substituted]

\* path.split('/').filter(s => s.length > 0)
Segments(path) == SelectSeq(Split(path, "/"), LAMBDA s : s # <<>>)

RECURSIVE SegmentScores(_)
SegmentScores(segments) ==
    IF segments = <<>> THEN 0
    ELSE (IF Head(segments) = <<"*">> THEN 1
          ELSE IF Head(Head(segments)) = ":" THEN 10
          ELSE 100)
         + SegmentScores(Tail(segments))

\* getPatternSpecificity(pattern)
getPatternSpecificity(pattern) ==
    LET segments == Segments(PathOf(pattern))
    IN  SegmentScores(segments)
        + (IF QueryOf(pattern) # <<>> THEN 1000 ELSE 0)
        + Len(segments)

\* Array.prototype.sort with (a, b) => score(b) - score(a): a stable sort, so
\* an entry goes after every earlier entry whose score is not lower
RECURSIVE InsertBySpecificity(_, _)
InsertBySpecificity(sorted, rule) ==
    IF sorted = <<>> THEN <<rule>>
    ELSE IF getPatternSpecificity(Head(sorted)[1]) >= getPatternSpecificity(rule[1])
         THEN <<Head(sorted)>> \o InsertBySpecificity(Tail(sorted), rule)
         ELSE <<rule>> \o sorted

RECURSIVE SortRules(_, _)
SortRules(sorted, rules) ==
    IF rules = <<>> THEN sorted
    ELSE SortRules(InsertBySpecificity(sorted, Head(rules)), Tail(rules))

\* a middleware that keeps Object.entries(rules) in declaration order
createRewriterMiddleware_unsorted(rules) == rules

\* createRewriterMiddleware(rules), construction: the sortedRules closure
createRewriterMiddleware(rules) == SortRules(<<>>, rules)

\* a handler that goes on to the next rules with the rewritten URL
RECURSIVE rewriterHandler_nobreak(_, _)
rewriterHandler_nobreak(rules, url) ==
    IF rules = <<>> THEN url
    ELSE LET rewritten == rewriteUrl(url, Head(rules)[1], Head(rules)[2])
         IN  rewriterHandler_nobreak(Tail(rules),
                                     IF rewritten.matched THEN rewritten.url ELSE url)

\* the handler createRewriterMiddleware returns: req.url when next() is called
RECURSIVE rewriterHandler(_, _)
rewriterHandler(rules, url) ==
    IF rules = <<>> THEN url
    ELSE LET rewritten == rewriteUrl(url, Head(rules)[1], Head(rules)[2])
         IN  IF rewritten.matched THEN rewritten.url
             ELSE rewriterHandler(Tail(rules), url)

(***************************************************************************)
(* The routes files and request URLs the model draws from                  *)
(***************************************************************************)

StringValue(s) == [t |-> "string", s |-> s]
NumberValue == [t |-> "number"]
BooleanValue == [t |-> "boolean"]
Entry(key, value) == [key |-> key, value |-> value]
ObjectFile(entries) == [kind |-> "object", entries |-> entries]
ArrayFile == [kind |-> "array", entries |-> <<>>]

\* JSON.parse(content) for each routes file, entries in Object.entries order
RoutesFiles == <<
    \* {"/posts/*": "/a/$1", "/posts/:id": "/b/:id"}
    ObjectFile(<<
        Entry(<<"/", "p", "o", "s", "t", "s", "/", "*">>,
              StringValue(<<"/", "a", "/", "$", "1">>)),
        Entry(<<"/", "p", "o", "s", "t", "s", "/", ":", "i", "d">>,
              StringValue(<<"/", "b", "/", ":", "i", "d">>))>>),
    \* {"/posts/:id": "/b/:id", "/posts/*": "/a/$1"}
    ObjectFile(<<
        Entry(<<"/", "p", "o", "s", "t", "s", "/", ":", "i", "d">>,
              StringValue(<<"/", "b", "/", ":", "i", "d">>)),
        Entry(<<"/", "p", "o", "s", "t", "s", "/", "*">>,
              StringValue(<<"/", "a", "/", "$", "1">>))>>),
    \* {"/posts/*": "/articles/$1", "/posts/:id": "/items/:id"}
    ObjectFile(<<
        Entry(<<"/", "p", "o", "s", "t", "s", "/", "*">>,
              StringValue(<<"/", "a", "r", "t", "i", "c", "l", "e", "s", "/", "$", "1">>)),
        Entry(<<"/", "p", "o", "s", "t", "s", "/", ":", "i", "d">>,
              StringValue(<<"/", "i", "t", "e", "m", "s", "/", ":", "i", "d">>))>>),
    \* {"/posts/:category": "/posts?category=:category"}
    ObjectFile(<<
        Entry(<<"/", "p", "o", "s", "t", "s", "/", ":", "c", "a", "t", "e", "g", "o", "r", "y">>,
              StringValue(<<"/", "p", "o", "s", "t", "s", "?", "c", "a", "t", "e", "g", "o", "r", "y", "=", ":", "c", "a", "t", "e", "g", "o", "r", "y">>))>>),
    \* {"/a/*?k=v": "/kv/$1", "/a/*?k=*": "/r/$1?v=$2", "/a/*": "/p/$1", "/s?q=*": "/search/$1"}
    ObjectFile(<<
        Entry(<<"/", "a", "/", "*", "?", "k", "=", "v">>,
              StringValue(<<"/", "k", "v", "/", "$", "1">>)),
        Entry(<<"/", "a", "/", "*", "?", "k", "=", "*">>,
              StringValue(<<"/", "r", "/", "$", "1", "?", "v", "=", "$", "2">>)),
        Entry(<<"/", "a", "/", "*">>,
              StringValue(<<"/", "p", "/", "$", "1">>)),
        Entry(<<"/", "s", "?", "q", "=", "*">>,
              StringValue(<<"/", "s", "e", "a", "r", "c", "h", "/", "$", "1">>))>>),
    \* {"/m/*/:id": "/x/:id", "/n/:id/*": "/y/:id/$2"}
    ObjectFile(<<
        Entry(<<"/", "m", "/", "*", "/", ":", "i", "d">>,
              StringValue(<<"/", "x", "/", ":", "i", "d">>)),
        Entry(<<"/", "n", "/", ":", "i", "d", "/", "*">>,
              StringValue(<<"/", "y", "/", ":", "i", "d", "/", "$", "2">>))>>),
    \* {"/a/*": "/b/$1", "/b/*": "/c/$1"}
    ObjectFile(<<
        Entry(<<"/", "a", "/", "*">>,
              StringValue(<<"/", "b", "/", "$", "1">>)),
        Entry(<<"/", "b", "/", "*">>,
              StringValue(<<"/", "c", "/", "$", "1">>))>>),
    \* {"/api/*": 123}
    ObjectFile(<<
        Entry(<<"/", "a", "p", "i", "/", "*">>,
              NumberValue)>>),
    \* {"/me": "/profile", "/api/*": 123, "/x": true}
    ObjectFile(<<
        Entry(<<"/", "m", "e">>,
              StringValue(<<"/", "p", "r", "o", "f", "i", "l", "e">>)),
        Entry(<<"/", "a", "p", "i", "/", "*">>,
              NumberValue),
        Entry(<<"/", "x">>,
              BooleanValue)>>),
    \* []
    ArrayFile,
    \* {"/api/*": "/$1", "/me": "/profile"}
    ObjectFile(<<
        Entry(<<"/", "a", "p", "i", "/", "*">>,
              StringValue(<<"/", "$", "1">>)),
        Entry(<<"/", "m", "e">>,
              StringValue(<<"/", "p", "r", "o", "f", "i", "l", "e">>))>>)>>

\* the request URLs (req.url: path and query string)
RequestUrls == <<
    \* /posts/123
    <<"/", "p", "o", "s", "t", "s", "/", "1", "2", "3">>,
    \* /posts/js
    <<"/", "p", "o", "s", "t", "s", "/", "j", "s">>,
    \* /posts/js?x=1
    <<"/", "p", "o", "s", "t", "s", "/", "j", "s", "?", "x", "=", "1">>,
    \* /a/b
    <<"/", "a", "/", "b">>,
    \* /a/b?k=v
    <<"/", "a", "/", "b", "?", "k", "=", "v">>,
    \* /a/b?k=w
    <<"/", "a", "/", "b", "?", "k", "=", "w">>,
    \* /a/b?m=1
    <<"/", "a", "/", "b", "?", "m", "=", "1">>,
    \* /b/x
    <<"/", "b", "/", "x">>,
    \* /s?q=tla
    <<"/", "s", "?", "q", "=", "t", "l", "a">>,
    \* /s
    <<"/", "s">>,
    \* /m/a/7
    <<"/", "m", "/", "a", "/", "7">>,
    \* /n/7/a
    <<"/", "n", "/", "7", "/", "a">>,
    \* /me
    <<"/", "m", "e">>,
    \* /message
    <<"/", "m", "e", "s", "s", "a", "g", "e">>,
    \* /api/posts?_limit=10&_page=2
    <<"/", "a", "p", "i", "/", "p", "o", "s", "t", "s", "?", "_", "l", "i", "m", "i", "t", "=", "1", "0", "&", "_", "p", "a", "g", "e", "=", "2">>,
    \* /api/me
    <<"/", "a", "p", "i", "/", "m", "e">>>>

NoError == [thrown |-> FALSE, message |-> "", key |-> <<>>]

\* the first entry of a routes file whose value is not a string (0: none)
FirstNonString(entries) ==
    LET bad == {i \in 1..Len(entries) : entries[i].value.t # "string"}
    IN  IF bad = {} THEN 0 ELSE CHOOSE i \in bad : \A j \in bad : i <= j

\* a loader that returns the rules without validating the values
loadRewriteRules_unchecked(file) ==
    [error |-> NoError,
     rules |-> [i \in 1..Len(file.entries) |->
                   <<file.entries[i].key,
                     IF file.entries[i].value.t = "string"
                     THEN file.entries[i].value.s ELSE <<>>>>]]

\* loadRewriteRules(filePath), after readFile and JSON.parse: the error it
\* throws, or the rules as the list of Object.entries(rules)
loadRewriteRules(file) ==
    IF file.kind # "object"
    THEN [error |-> [thrown |-> TRUE,
                     message |-> "Routes file must contain a JSON object with route mappings",
                     key |-> <<>>],
          rules |-> <<>>]
    ELSE IF FirstNonString(file.entries) # 0
    THEN [error |-> [thrown |-> TRUE,
                     message |-> "Route mapping for key must be a string",
                     key |-> file.entries[FirstNonString(file.entries)].key],
          rules |-> <<>>]
    ELSE [error |-> NoError,
          rules |-> [i \in 1..Len(file.entries) |->
                        <<file.entries[i].key, file.entries[i].value.s>>]]

(***************************************************************************)
(* JavaScript values: a record is an object, a function from field names   *)
(* (strings) to values                                                     *)
(***************************************************************************)

Num(n) == [t |-> "number", n |-> n]
Str(s) == [t |-> "string", s |-> s]
Obj(o) == [t |-> "object", o |-> o]
Undefined == [t |-> "undefined"]

\* optional numbers of QueryOptions (page, limit, start, end)
None == [defined |-> FALSE, n |-> 0]
Some(n) == [defined |-> TRUE, n |-> n]

\* the UTF-16 order of the characters the model's strings are made of
CodeOrder ==
    <<" ", "0", "1", "2", "3", "4", "5", "6", "7", "8", "9",
      "A", "B", "C", "D", "E", "F", "G", "H", "I", "J", "K", "L", "M",
      "N", "O", "P", "Q", "R", "S", "T", "U", "V", "W", "X", "Y", "Z",
      "[", "]", "_",
      "a", "b", "c", "d", "e", "f", "g", "h", "i", "j", "k", "l", "m",
      "n", "o", "p", "q", "r", "s", "t", "u", "v", "w", "x", "y", "z">>

CharCode(c) == CHOOSE i \in 1..Len(CodeOrder) : CodeOrder[i] = c

UpperCase == {CodeOrder[i] : i \in 12..37}

\* c.toLowerCase(): 'A'..'Z' are 29 places before 'a'..'z' in CodeOrder
LowerChar(c) == IF c \in UpperCase THEN CodeOrder[CharCode(c) + 29] ELSE c

\* s.toLowerCase()
ToLowerCase(s) == [i \in 1..Len(s) |-> LowerChar(s[i])]

Digits == {"0", "1", "2", "3", "4", "5", "6", "7", "8", "9"}

\* the value of a non-empty string of decimal digits
RECURSIVE DigitsValue(_)
DigitsValue(s) ==
    IF s = <<>> THEN 0
    ELSE DigitsValue(Take(s, Len(s) - 1)) * 10 + (CharCode(s[Len(s)]) - CharCode("0"))

\* s.trim() for the one whitespace character of the model, the space
RECURSIVE TrimLeft(_)
TrimLeft(s) == IF s # <<>> /\ Head(s) = " " THEN TrimLeft(Tail(s)) ELSE s

RECURSIVE TrimRight(_)
TrimRight(s) ==
    IF s # <<>> /\ s[Len(s)] = " " THEN TrimRight(Take(s, Len(s) - 1)) ELSE s

Trim(s) == TrimRight(TrimLeft(s))

NaN == [nan |-> TRUE, n |-> 0]
Finite(n) == [nan |-> FALSE, n |-> n]

\* Number(s) for a string: blank is 0, decimal digits are their value, any
\* other text of the model's alphabet is NaN
StringToNumber(s) ==
    IF Trim(s) = <<>> THEN Finite(0)
    ELSE IF \A i \in 1..Len(Trim(s)) : Trim(s)[i] \in Digits THEN Finite(DigitsValue(Trim(s)))
    ELSE NaN

ObjectText ==
    <<"[", "o", "b", "j", "e", "c", "t", " ", "O", "b", "j", "e", "c", "t", "]">>

UndefinedText == <<"u", "n", "d", "e", "f", "i", "n", "e", "d">>

\* String(v)
JsString(v) ==
    CASE v.t = "number" -> NumToString(v.n)
      [] v.t = "string" -> v.s
      [] v.t = "object" -> ObjectText
      [] v.t = "undefined" -> UndefinedText

\* Number(v)
JsNumber(v) ==
    CASE v.t = "number" -> Finite(v.n)
      [] v.t = "string" -> StringToNumber(v.s)
      [] v.t = "object" -> NaN
      [] v.t = "undefined" -> NaN

\* a < b on numbers: false as soon as one side is NaN
NumLess(a, b) == ~a.nan /\ ~b.nan /\ a.n < b.n

\* a < b on strings: by code units, a proper prefix first
RECURSIVE StrLess(_, _)
StrLess(a, b) ==
    IF b = <<>> THEN FALSE
    ELSE IF a = <<>> THEN TRUE
    ELSE IF Head(a) = Head(b) THEN StrLess(Tail(a), Tail(b))
    ELSE CharCode(Head(a)) < CharCode(Head(b))

\* ToPrimitive with hint number: an object becomes its text
ToPrimitive(v) == IF v.t = "object" THEN Str(ObjectText) ELSE v

\* a < b: two strings compare as strings, anything else as numbers
JsLess(a, b) ==
    LET pa == ToPrimitive(a)
        pb == ToPrimitive(b)
    IN  IF pa.t = "string" /\ pb.t = "string" THEN StrLess(pa.s, pb.s)
        ELSE NumLess(JsNumber(pa), JsNumber(pb))

\* a === b: the same primitive value; two objects of different records are
\* never the same object
StrictEquals(a, b) ==
    /\ a.t = b.t
    /\ CASE a.t = "number" -> a.n = b.n
         [] a.t = "string" -> a.s = b.s
         [] a.t = "object" -> FALSE
         [] a.t = "undefined" -> TRUE

(***************************************************************************)
(* query.ts                                                                *)
(***************************************************************************)

\* the loop of getNestedValue over path.split('.')
RECURSIVE WalkKeys(_, _)
WalkKeys(current, keys) ==
    IF keys = <<>> THEN current
    ELSE IF current.t # "object" \/ Head(keys) \notin DOMAIN current.o THEN Undefined
    ELSE WalkKeys(current.o[Head(keys)], Tail(keys))

\* getNestedValue(obj, path)
getNestedValue(obj, path) ==
    IF obj.t # "object" THEN Undefined ELSE WalkKeys(obj, Split(path, "."))

\* a single filter value, and an array of them
Single(v) == [multi |-> FALSE, values |-> <<v>>]
Multi(vs) == [multi |-> TRUE, values |-> vs]

\* a filter test that compares the first value of the array alone
FilterMatches_first(itemValue, filterValue) ==
    JsString(itemValue) = filterValue.values[1]

\* the body of matchesFilters' loop: String(itemValue) equals the single
\* value, or some value of the array
FilterMatches(itemValue, filterValue) ==
    IF filterValue.multi
    THEN \E i \in 1..Len(filterValue.values) : JsString(itemValue) = filterValue.values[i]
    ELSE JsString(itemValue) = filterValue.values[1]

\* matchesFilters(item, filters), filters as the list of Object.entries
matchesFilters(item, filters) ==
    /\ item.t = "object"
    /\ \A i \in 1..Len(filters) :
           FilterMatches(getNestedValue(item, filters[i][1]), filters[i][2])

\* one operator of matchesOperators against one value
OperatorMatches(itemValue, operator, filterValue) ==
    CASE operator = "gte" -> ~NumLess(JsNumber(itemValue), StringToNumber(filterValue))
      [] operator = "lte" -> ~NumLess(StringToNumber(filterValue), JsNumber(itemValue))
      [] operator = "ne" -> JsString(itemValue) # filterValue
      [] operator = "like" ->
             Includes(ToLowerCase(JsString(itemValue)), ToLowerCase(filterValue))
      [] OTHER -> TRUE

\* matchesOperators(item, operators): operators as the list of
\* (field, list of (operator, value))
matchesOperators(item, operators) ==
    /\ item.t = "object"
    /\ \A i \in 1..Len(operators) :
           \A j \in 1..Len(operators[i][2]) :
               OperatorMatches(getNestedValue(item, operators[i][1]),
                               operators[i][2][j][1], operators[i][2][j][2])

\* searchObject inside matchesSearch: a string contains the text, or some
\* value of an object does
RECURSIVE searchObject(_, _)
searchObject(obj, lowerSearch) ==
    CASE obj.t = "string" -> Includes(ToLowerCase(obj.s), lowerSearch)
      [] obj.t = "object" -> \E k \in DOMAIN obj.o : searchObject(obj.o[k], lowerSearch)
      [] OTHER -> FALSE

\* matchesSearch(item, searchText)
matchesSearch(item, searchText) ==
    item.t = "object" /\ searchObject(item, ToLowerCase(searchText))

\* applyQuery up to `const total`: the search, the filters and the operators
FilterStage(data, options) ==
    LET searched == IF options.q # <<>>
                    THEN SelectSeq(data, LAMBDA item : matchesSearch(item, options.q))
                    ELSE data
        filtered == IF Len(options.filters) > 0
                    THEN SelectSeq(searched, LAMBDA item : matchesFilters(item, options.filters))
                    ELSE searched
    IN  IF Len(options.operators) > 0
        THEN SelectSeq(filtered, LAMBDA item : matchesOperators(item, options.operators))
        ELSE filtered

\* the comparator of applyQuery's sort, from sort field i on: -1, 0 or 1
RECURSIVE Compare(_, _, _, _, _)
Compare(a, b, sortFields, sortOrders, i) ==
    IF i > Len(sortFields) THEN 0
    ELSE IF sortFields[i] = <<>> THEN Compare(a, b, sortFields, sortOrders, i + 1)
    ELSE LET order == IF i <= Len(sortOrders) /\ sortOrders[i] = <<"d", "e", "s", "c">>
                      THEN -1 ELSE 1
             aVal == getNestedValue(a, sortFields[i])
             bVal == getNestedValue(b, sortFields[i])
         IN  IF StrictEquals(aVal, bVal) THEN Compare(a, b, sortFields, sortOrders, i + 1)
             ELSE IF aVal.t = "undefined" THEN order
             ELSE IF bVal.t = "undefined" THEN -order
             ELSE IF JsLess(aVal, bVal) THEN -order
             ELSE IF JsLess(bVal, aVal) THEN order
             ELSE Compare(a, b, sortFields, sortOrders, i + 1)

\* an unstable placement: an item goes before the items already placed that
\* the comparator holds equal to it
RECURSIVE InsertSorted_unstable(_, _, _)
InsertSorted_unstable(sorted, item, options) ==
    IF sorted = <<>> THEN <<item>>
    ELSE IF Compare(Head(sorted), item, options.sort, options.order, 1) < 0
         THEN <<Head(sorted)>> \o InsertSorted_unstable(Tail(sorted), item, options)
         ELSE <<item>> \o sorted

\* Array.prototype.sort is stable: an item goes after every item already
\* placed that the comparator does not put after it
RECURSIVE InsertSorted(_, _, _)
InsertSorted(sorted, item, options) ==
    IF sorted = <<>> THEN <<item>>
    ELSE IF Compare(Head(sorted), item, options.sort, options.order, 1) <= 0
         THEN <<Head(sorted)>> \o InsertSorted(Tail(sorted), item, options)
         ELSE <<item>> \o sorted

RECURSIVE SortItems(_, _, _)
SortItems(sorted, items, options) ==
    IF items = <<>> THEN sorted
    ELSE SortItems(InsertSorted(sorted, Head(items), options), Tail(items), options)

\* applyQuery's sort step
SortStage(result, options) ==
    IF Len(options.sort) > 0 THEN SortItems(<<>>, result, options) ELSE result

\* result.slice(start, end) for 0 <= start, 0 <= end
Slice(s, start, end) ==
    LET e == IF end > Len(s) THEN Len(s) ELSE end
    IN  IF start >= e THEN <<>> ELSE SubSeq(s, start + 1, e)

\* a window step in which page and limit win over start and end
WindowStage_pageFirst(result, options) ==
    IF options.page.defined /\ options.limit.defined
    THEN Slice(result, (options.page.n - 1) * options.limit.n,
               (options.page.n - 1) * options.limit.n + options.limit.n)
    ELSE IF options.start.defined \/ options.end.defined
    THEN Slice(result,
               IF options.start.defined THEN options.start.n ELSE 0,
               IF options.end.defined THEN options.end.n ELSE Len(result))
    ELSE IF options.limit.defined
    THEN Slice(result, 0, options.limit.n)
    ELSE result

\* applyQuery's window step: start/end, else page and limit, else limit
WindowStage(result, options) ==
    IF options.start.defined \/ options.end.defined
    THEN Slice(result,
               IF options.start.defined THEN options.start.n ELSE 0,
               IF options.end.defined THEN options.end.n ELSE Len(result))
    ELSE IF options.page.defined /\ options.limit.defined
    THEN Slice(result, (options.page.n - 1) * options.limit.n,
               (options.page.n - 1) * options.limit.n + options.limit.n)
    ELSE IF options.limit.defined
    THEN Slice(result, 0, options.limit.n)
    ELSE result

\* an applyQuery that counts the total after the window
applyQuery_totalAfterWindow(data, options) ==
    LET windowed == WindowStage(SortStage(FilterStage(data, options), options), options)
    IN  [data |-> windowed, total |-> Len(windowed)]

\* applyQuery(data, options)
applyQuery(data, options) ==
    LET filtered == FilterStage(data, options)
    IN  [data |-> WindowStage(SortStage(filtered, options), options),
         total |-> Len(filtered)]

\* the longest run of decimal digits a string starts with
RECURSIVE DigitPrefix(_)
DigitPrefix(s) ==
    IF s = <<>> \/ Head(s) \notin Digits THEN <<>>
    ELSE <<Head(s)>> \o DigitPrefix(Tail(s))

\* parseInt(s, 10): leading spaces are skipped, a sign is read, then the
\* longest run of digits; NaN when there is no digit
parseInt(s) ==
    LET t == TrimLeft(s)
        signed == t # <<>> /\ Head(t) \in {"-", "+"}
        digits == DigitPrefix(IF signed THEN Tail(t) ELSE t)
    IN  IF digits = <<>> THEN NaN
        ELSE IF Head(t) = "-" THEN Finite(0 - DigitsValue(digits))
        ELSE Finite(DigitsValue(digits))

\* the text that ends an operator key
OperatorSuffix(operator) ==
    CASE operator = "gte" -> <<"_", "g", "t", "e">>
      [] operator = "lte" -> <<"_", "l", "t", "e">>
      [] operator = "ne" -> <<"_", "n", "e">>
      [] operator = "like" -> <<"_", "l", "i", "k", "e">>

\* key.match(/^(.+)_(gte|lte|ne|like)$/): the field is what precedes the
\* suffix, and is not empty
operatorMatch(key) ==
    LET operators == {op \in {"gte", "lte", "ne", "like"} :
                         /\ Len(key) > Len(OperatorSuffix(op))
                         /\ Drop(key, Len(key) - Len(OperatorSuffix(op))) = OperatorSuffix(op)}
    IN  IF operators = {} THEN [matched |-> FALSE, field |-> <<>>, operator |-> ""]
        ELSE LET op == CHOOSE o \in operators : TRUE
             IN  [matched |-> TRUE,
                  field |-> Take(key, Len(key) - Len(OperatorSuffix(op))),
                  operator |-> op]

\* ops[operator] = value on the list of an object's entries: an entry that
\* exists keeps its place, a new one goes last
SetEntry(entries, key, value) ==
    IF \E i \in 1..Len(entries) : entries[i][1] = key
    THEN [i \in 1..Len(entries) |->
              IF entries[i][1] = key THEN <<key, value>> ELSE entries[i]]
    ELSE Append(entries, <<key, value>>)

\* operators[field][operator] = stringValue, operators[field] created when
\* it is not there
SetOperator(operators, field, operator, value) ==
    IF \E i \in 1..Len(operators) : operators[i][1] = field
    THEN [i \in 1..Len(operators) |->
              IF operators[i][1] = field
              THEN <<field, SetEntry(operators[i][2], operator, value)>>
              ELSE operators[i]]
    ELSE Append(operators, <<field, <<<<operator, value>>>>>>)

\* the lists pushed to sort and order: the pieces of a string between
\* commas, or the elements of an array
PushedValues(value) ==
    IF value.multi THEN value.values ELSE Split(value.values[1], ",")

\* a window parameter: parseInt of a non-empty value, kept when it is a
\* number and at least `least`, dropped otherwise
ParsedBound(current, stringValue, least) ==
    LET parsed == parseInt(stringValue)
    IN  IF ~parsed.nan /\ parsed.n >= least THEN Some(parsed.n) ELSE current

\* the body of parseQuery's loop for one entry of req.query
ParseEntry(acc, key, value) ==
    LET stringValue == value.values[1]
    IN  IF key = <<"_", "s", "o", "r", "t">> THEN [acc EXCEPT !.sort = @ \o PushedValues(value)]
        ELSE IF key = <<"_", "o", "r", "d", "e", "r">> THEN [acc EXCEPT !.order = @ \o PushedValues(value)]
        ELSE IF key = <<"_", "p", "a", "g", "e">> /\ stringValue # <<>>
        THEN [acc EXCEPT !.page = ParsedBound(@, stringValue, 1)]
        ELSE IF key = <<"_", "l", "i", "m", "i", "t">> /\ stringValue # <<>>
        THEN [acc EXCEPT !.limit = ParsedBound(@, stringValue, 1)]
        ELSE IF key = <<"_", "s", "t", "a", "r", "t">> /\ stringValue # <<>>
        THEN [acc EXCEPT !.start = ParsedBound(@, stringValue, 0)]
        ELSE IF key = <<"_", "e", "n", "d">> /\ stringValue # <<>>
        THEN [acc EXCEPT !.end = ParsedBound(@, stringValue, 0)]
        ELSE IF key = <<"q">> /\ stringValue # <<>> /\ Trim(stringValue) # <<>>
        THEN [acc EXCEPT !.q = stringValue]
        ELSE IF operatorMatch(key).matched /\ stringValue # <<>>
        THEN [acc EXCEPT !.operators =
                  SetOperator(@, operatorMatch(key).field,
                              operatorMatch(key).operator, stringValue)]
        ELSE [acc EXCEPT !.filters = Append(@, <<key, value>>)]

RECURSIVE ParseEntries(_, _)
ParseEntries(acc, entries) ==
    IF entries = <<>> THEN acc
    ELSE ParseEntries(ParseEntry(acc, Head(entries)[1], Head(entries)[2]), Tail(entries))

\* parseQuery(req), req.query as the list of its entries; a value is a
\* string or an array of strings
parseQuery(query) ==
    ParseEntries([filters |-> <<>>,
                  operators |-> <<>>,
                  sort |-> <<>>,
                  order |-> <<>>,
                  page |-> None,
                  limit |-> None,
                  start |-> None,
                  end |-> None,
                  q |-> <<>>],
                 query)

\* pieces.join(sep)
RECURSIVE Join(_, _)
Join(pieces, sep) ==
    IF pieces = <<>> THEN <<>>
    ELSE IF Len(pieces) = 1 THEN Head(pieces)
    ELSE Head(pieces) \o sep \o Join(Tail(pieces), sep)

\* new URLSearchParams(record): one pair per key, the value converted to a
\* string, which for an array is its elements joined by commas
URLSearchParamsOfRecord(query) ==
    [i \in 1..Len(query) |->
         <<query[i][1],
           IF query[i][2].multi THEN Join(query[i][2].values, <<",">>)
           ELSE query[i][2].values[1]>>]

\* params.set(name, value): the first pair of that name takes the value and
\* the others are removed; a new pair goes last
ParamsSet(params, name, value) ==
    IF ParamsHas(params, name)
    THEN LET first == CHOOSE k \in 1..Len(params) :
                          params[k][1] = name /\ \A j \in 1..(k - 1) : params[j][1] # name
             kept == SelectSeq([i \in 1..Len(params) |-> <<i, params[i]>>],
                               LAMBDA e : e[2][1] # name \/ e[1] = first)
         IN  [i \in 1..Len(kept) |->
                  IF kept[i][1] = first THEN <<name, value>> ELSE kept[i][2]]
    ELSE Append(params, <<name, value>>)

\* the application/x-www-form-urlencoded byte serialisation of the model's
\* characters: a space is '+', a comma is %2C, letters, digits, '_', '-',
\* '.' and '*' stand for themselves
RECURSIVE FormEncode(_)
FormEncode(s) ==
    IF s = <<>> THEN <<>>
    ELSE (CASE Head(s) = " " -> <<"+">>
            [] Head(s) = "," -> <<"%", "2", "C">>
            [] OTHER -> <<Head(s)>>)
         \o FormEncode(Tail(s))

\* params.toString()
ParamsToString(params) ==
    Join([i \in 1..Len(params) |->
              FormEncode(params[i][1]) \o <<"=">> \o FormEncode(params[i][2])],
         <<"&">>)

\* Math.ceil(total / limit) for total >= 0, limit > 0
Ceil(total, limit) == (total + limit - 1) \div limit

\* one entry of the Link header
LinkEntry(baseUrl, params, rel) ==
    <<"<">> \o baseUrl \o <<"?">> \o ParamsToString(params)
        \o <<">", ";", " ", "r", "e", "l", "=", "\"">> \o rel \o <<"\"">>

\* generateLinkHeader(req, page, limit, total)
generateLinkHeader(req, page, limit, total) ==
    LET baseUrl == req.protocol \o <<":", "/", "/">> \o req.host \o req.path
        lastPage == Ceil(total, limit)
        query == ParamsSet(ParamsSet(URLSearchParamsOfRecord(req.query), <<"_", "p", "a", "g", "e">>, <<"1">>),
                           <<"_", "l", "i", "m", "i", "t">>, NumToString(limit))
        first == <<LinkEntry(baseUrl, query, <<"f", "i", "r", "s", "t">>)>>
        prev == IF page > 1
                THEN <<LinkEntry(baseUrl, ParamsSet(query, <<"_", "p", "a", "g", "e">>, NumToString(page - 1)),
                                 <<"p", "r", "e", "v">>)>>
                ELSE <<>>
        next == IF page < lastPage
                THEN <<LinkEntry(baseUrl, ParamsSet(query, <<"_", "p", "a", "g", "e">>, NumToString(page + 1)),
                                 <<"n", "e", "x", "t">>)>>
                ELSE <<>>
        last == <<LinkEntry(baseUrl, ParamsSet(query, <<"_", "p", "a", "g", "e">>, NumToString(lastPage)),
                            <<"l", "a", "s", "t">>)>>
    IN  Join(first \o prev \o next \o last, <<",", " ">>)

(***************************************************************************)
(* database.ts and relationships.ts: the store is a function from the      *)
(* names of its resources to values, a collection being an array of        *)
(* records and a singular resource an object                               *)
(***************************************************************************)

Arr(a) == [t |-> "array", a |-> a]

\* db.getCollection(name): this.db.data[name]
getCollection(db, name) == IF name \in DOMAIN db THEN db[name] ELSE Undefined

\* item[key] of a record
Field(item, key) == IF key \in DOMAIN item.o THEN item.o[key] ELSE Undefined

\* collectionName.endsWith('s') ? collectionName.slice(0, -1) : collectionName
Singular(collectionName) ==
    IF collectionName # <<>> /\ collectionName[Len(collectionName)] = "s"
    THEN Take(collectionName, Len(collectionName) - 1)
    ELSE collectionName

\* getForeignKey(collectionName, foreignKeySuffix)
getForeignKey(collectionName, foreignKeySuffix) ==
    Singular(collectionName) \o foreignKeySuffix

\* a === b || String(a) === String(b)
SameId(a, b) == StrictEquals(a, b) \/ JsString(a) = JsString(b)

\* an embedChildren that compares the foreign key and the id with === alone
embedChildren_strict(items, parentCollection, childCollection, db, idField, foreignKeySuffix) ==
    LET children == getCollection(db, childCollection)
        foreignKey == getForeignKey(parentCollection, foreignKeySuffix)
    IN  IF children.t # "array" THEN items
        ELSE [i \in 1..Len(items) |->
                  Obj((childCollection :>
                           Arr(SelectSeq(children.a, LAMBDA child :
                                   /\ child.t = "object"
                                   /\ StrictEquals(Field(child, foreignKey),
                                                   Field(items[i], idField)))))
                      @@ items[i].o)]

\* embedChildren(items, parentCollection, childCollection, db, idField,
\* foreignKeySuffix): { ...item, [childCollection]: matchingChildren }
embedChildren(items, parentCollection, childCollection, db, idField, foreignKeySuffix) ==
    LET children == getCollection(db, childCollection)
        foreignKey == getForeignKey(parentCollection, foreignKeySuffix)
    IN  IF children.t # "array" THEN items
        ELSE [i \in 1..Len(items) |->
                  Obj((childCollection :>
                           Arr(SelectSeq(children.a, LAMBDA child :
                                   /\ child.t = "object"
                                   /\ SameId(Field(child, foreignKey),
                                             Field(items[i], idField)))))
                      @@ items[i].o)]

\* an expandParent that attaches the field to every child, undefined when
\* there is no parent for it
expandParent_always(items, childCollection, parentCollection, db, idField, foreignKeySuffix) ==
    LET parents == getCollection(db, parentCollection)
        foreignKey == getForeignKey(parentCollection, foreignKeySuffix)
    IN  [i \in 1..Len(items) |->
             Obj((Singular(parentCollection) :>
                      (IF parents.t # "array" THEN Undefined
                       ELSE LET hits == {k \in 1..Len(parents.a) :
                                            SameId(Field(parents.a[k], idField),
                                                   Field(items[i], foreignKey))}
                            IN  IF hits = {} THEN Undefined
                                ELSE parents.a[CHOOSE k \in hits : \A j \in hits : k <= j]))
                 @@ items[i].o)]

\* a parents.find(...) that compares the id and the foreign key with ===
\* alone
FindParent_strict(parents, foreignKeyValue, idField) ==
    LET hits == {k \in 1..Len(parents) :
                     /\ parents[k].t = "object"
                     /\ StrictEquals(Field(parents[k], idField), foreignKeyValue)}
    IN  IF hits = {} THEN Undefined
        ELSE parents[CHOOSE k \in hits : \A j \in hits : k <= j]

\* parents.find(...) of expandParent: the first parent record whose id is
\* the foreign-key value, a number or a string; Undefined when there is none
FindParent(parents, foreignKeyValue, idField) ==
    LET hits == {k \in 1..Len(parents) :
                     /\ parents[k].t = "object"
                     /\ foreignKeyValue.t \in {"number", "string"}
                     /\ SameId(Field(parents[k], idField), foreignKeyValue)}
    IN  IF hits = {} THEN Undefined
        ELSE parents[CHOOSE k \in hits : \A j \in hits : k <= j]

\* expandParent(items, _childCollection, parentCollection, db, idField,
\* foreignKeySuffix): { ...item, [singular parent name]: parent }
expandParent(items, childCollection, parentCollection, db, idField, foreignKeySuffix) ==
    LET parents == getCollection(db, parentCollection)
        foreignKey == getForeignKey(parentCollection, foreignKeySuffix)
    IN  IF parents.t # "array" THEN items
        ELSE [i \in 1..Len(items) |->
                  LET foreignKeyValue == Field(items[i], foreignKey)
                      parent == FindParent(parents.a, foreignKeyValue, idField)
                  IN  IF foreignKeyValue.t = "undefined" \/ parent.t # "object"
                      THEN items[i]
                      ELSE Obj((Singular(parentCollection) :> parent) @@ items[i].o)]

\* the loop of applyRelationships over embed
RECURSIVE ApplyEmbeds(_, _, _, _, _, _)
ApplyEmbeds(result, resource, embed, db, idField, foreignKeySuffix) ==
    IF embed = <<>> THEN result
    ELSE ApplyEmbeds(embedChildren(result, resource, Head(embed), db, idField,
                                   foreignKeySuffix),
                     resource, Tail(embed), db, idField, foreignKeySuffix)

\* the loop of applyRelationships over expand
RECURSIVE ApplyExpands(_, _, _, _, _, _)
ApplyExpands(result, resource, expand, db, idField, foreignKeySuffix) ==
    IF expand = <<>> THEN result
    ELSE ApplyExpands(expandParent(result, resource, Head(expand), db, idField,
                                   foreignKeySuffix),
                      resource, Tail(expand), db, idField, foreignKeySuffix)

\* applyRelationships(data, resource, embed, expand, db, idField,
\* foreignKeySuffix): the embeds, then the expands
applyRelationships(data, resource, embed, expand, db, idField, foreignKeySuffix) ==
    ApplyExpands(ApplyEmbeds(data, resource, embed, db, idField, foreignKeySuffix),
                 resource, expand, db, idField, foreignKeySuffix)

\* query._embed or query._expand as the list parseRelationships builds: the
\* pieces of a string between commas, the elements of an array, nothing when
\* the key is absent
RelationNames(query, key) ==
    IF \E i \in 1..Len(query) : query[i][1] = key
    THEN PushedValues(query[CHOOSE i \in 1..Len(query) : query[i][1] = key][2])
    ELSE <<>>

\* parseRelationships(query)
parseRelationships(query) ==
    [embed |-> RelationNames(query, <<"_", "e", "m", "b", "e", "d">>),
     expand |-> RelationNames(query, <<"_", "e", "x", "p", "a", "n", "d">>)]

(***************************************************************************)
(* Calls of applyQuery and of the relationship functions on a caller's     *)
(* list: what each call returns and what it leaves in its arguments        *)
(***************************************************************************)

\* an applyQuery that starts from `let result = data`: when no filter has
\* replaced result by a new array, result.sort sorts the caller's array
applyQueryCall_alias(data, options) ==
    [items |-> IF options.q = <<>> /\ Len(options.filters) = 0
                  /\ Len(options.operators) = 0
               THEN SortStage(data, options) ELSE data,
     result |-> applyQuery(data, options).data]

\* a call applyQuery(data, options): result starts as [...data], a new
\* array; each filter and slice makes another one; result.sort sorts the
\* array result names at that point, never data
applyQueryCall(data, options) ==
    [items |-> data,
     result |-> applyQuery(data, options).data]

\* a call embedChildren(items, ...): items.map and children.filter make new
\* arrays and { ...item, [childCollection]: ... } a new record; nothing is
\* assigned to items, to a record of it, or to the store
embedChildrenCall(items, parentCollection, childCollection, db, idField, foreignKeySuffix) ==
    [items |-> items,
     db |-> db,
     result |-> embedChildren(items, parentCollection, childCollection, db, idField,
                              foreignKeySuffix)]

\* a call expandParent(items, ...): items.map makes a new array and
\* { ...item, [parentPropName]: parent } a new record
expandParentCall(items, childCollection, parentCollection, db, idField, foreignKeySuffix) ==
    [items |-> items,
     db |-> db,
     result |-> expandParent(items, childCollection, parentCollection, db, idField,
                             foreignKeySuffix)]

\* the embed loop of a call of applyRelationships: state.items is the
\* caller's array, state.result the array the next embedChildren is given,
\* the caller's own array in the first round
RECURSIVE EmbedCalls(_, _, _, _, _, _)
EmbedCalls(state, first, resource, embed, idField, foreignKeySuffix) ==
    IF embed = <<>> THEN state
    ELSE LET call == embedChildrenCall(state.result, resource, Head(embed), state.db,
                                       idField, foreignKeySuffix)
         IN  EmbedCalls([items |-> IF first THEN call.items ELSE state.items,
                         db |-> call.db,
                         result |-> call.result],
                        FALSE, resource, Tail(embed), idField, foreignKeySuffix)

\* the expand loop of a call of applyRelationships
RECURSIVE ExpandCalls(_, _, _, _, _, _)
ExpandCalls(state, first, resource, expand, idField, foreignKeySuffix) ==
    IF expand = <<>> THEN state
    ELSE LET call == expandParentCall(state.result, resource, Head(expand), state.db,
                                      idField, foreignKeySuffix)
         IN  ExpandCalls([items |-> IF first THEN call.items ELSE state.items,
                          db |-> call.db,
                          result |-> call.result],
                         FALSE, resource, Tail(expand), idField, foreignKeySuffix)

\* a call applyRelationships(data, resource, embed, expand, db, idField,
\* foreignKeySuffix)
applyRelationshipsCall(data, resource, embed, expand, db, idField, foreignKeySuffix) ==
    ExpandCalls(EmbedCalls([items |-> data, db |-> db, result |-> data], TRUE,
                           resource, embed, idField, foreignKeySuffix),
                embed = <<>>, resource, expand, idField, foreignKeySuffix)

(***************************************************************************)
(* The record lists and query options the model draws from                 *)
(***************************************************************************)

\* the record lists handed to applyQuery
DataPool == <<
    <<
      \* {"id": 1, "title": "Hi Al", "author": "al", "views": 100, "user": {"name": "al"}}
      Obj(<<"i", "d">> :> Num(1)
          @@ <<"t", "i", "t", "l", "e">> :> Str(<<"H", "i", " ", "A", "l">>)
          @@ <<"a", "u", "t", "h", "o", "r">> :> Str(<<"a", "l">>)
          @@ <<"v", "i", "e", "w", "s">> :> Num(100)
          @@ <<"u", "s", "e", "r">> :> Obj(<<"n", "a", "m", "e">> :> Str(<<"a", "l">>))),
      \* {"id": 2, "title": "Yo", "author": "bob", "views": 250, "user": {"name": "bob"}}
      Obj(<<"i", "d">> :> Num(2)
          @@ <<"t", "i", "t", "l", "e">> :> Str(<<"Y", "o">>)
          @@ <<"a", "u", "t", "h", "o", "r">> :> Str(<<"b", "o", "b">>)
          @@ <<"v", "i", "e", "w", "s">> :> Num(250)
          @@ <<"u", "s", "e", "r">> :> Obj(<<"n", "a", "m", "e">> :> Str(<<"b", "o", "b">>))),
      \* {"id": 3, "author": "al", "views": 150}
      Obj(<<"i", "d">> :> Num(3)
          @@ <<"a", "u", "t", "h", "o", "r">> :> Str(<<"a", "l">>)
          @@ <<"v", "i", "e", "w", "s">> :> Num(150)),
      \* {"id": 4, "title": "undefined", "views": "150", "user": {"nick": "al"}}
      Obj(<<"i", "d">> :> Num(4)
          @@ <<"t", "i", "t", "l", "e">> :> Str(<<"u", "n", "d", "e", "f", "i", "n", "e", "d">>)
          @@ <<"v", "i", "e", "w", "s">> :> Str(<<"1", "5", "0">>)
          @@ <<"u", "s", "e", "r">> :> Obj(<<"n", "i", "c", "k">> :> Str(<<"a", "l">>))),
      \* {"id": 5, "title": "Hm", "author": "cy"}
      Obj(<<"i", "d">> :> Num(5)
          @@ <<"t", "i", "t", "l", "e">> :> Str(<<"H", "m">>)
          @@ <<"a", "u", "t", "h", "o", "r">> :> Str(<<"c", "y">>))>>,
    <<
      \* {"id": 1, "title": "Hello World", "views": 100}
      Obj(<<"i", "d">> :> Num(1)
          @@ <<"t", "i", "t", "l", "e">> :> Str(<<"H", "e", "l", "l", "o", " ", "W", "o", "r", "l", "d">>)
          @@ <<"v", "i", "e", "w", "s">> :> Num(100)),
      \* {"id": 2, "title": "Testing", "views": 250}
      Obj(<<"i", "d">> :> Num(2)
          @@ <<"t", "i", "t", "l", "e">> :> Str(<<"T", "e", "s", "t", "i", "n", "g">>)
          @@ <<"v", "i", "e", "w", "s">> :> Num(250))>>>>

\* options.filters, each as the list of Object.entries
FilterPool == <<
    \* {}
    <<>>,
    \* {"author": "al"}
    <<<<<<"a", "u", "t", "h", "o", "r">>,
         Single(<<"a", "l">>)>>>>,
    \* {"author": "al", "views": "150"}
    <<<<<<"a", "u", "t", "h", "o", "r">>,
         Single(<<"a", "l">>)>>,
      <<<<"v", "i", "e", "w", "s">>,
         Single(<<"1", "5", "0">>)>>>>,
    \* {"author": ["al", "bob"]}
    <<<<<<"a", "u", "t", "h", "o", "r">>,
         Multi(<<<<"a", "l">>, <<"b", "o", "b">>>>)>>>>,
    \* {"user.name": "al"}
    <<<<<<"u", "s", "e", "r", ".", "n", "a", "m", "e">>,
         Single(<<"a", "l">>)>>>>,
    \* {"author": "undefined"}
    <<<<<<"a", "u", "t", "h", "o", "r">>,
         Single(<<"u", "n", "d", "e", "f", "i", "n", "e", "d">>)>>>>,
    \* {"user.name": ["bob", "undefined"]}
    <<<<<<"u", "s", "e", "r", ".", "n", "a", "m", "e">>,
         Multi(<<<<"b", "o", "b">>, <<"u", "n", "d", "e", "f", "i", "n", "e", "d">>>>)>>>>>>

\* options.operators, each as the list of (field, list of (operator, value))
OperatorPool == <<
    \* {}
    <<>>,
    \* {"views": {"gte": "150"}}
    <<<<<<"v", "i", "e", "w", "s">>,
         <<<<"gte", <<"1", "5", "0">>>>>>>>>>,
    \* {"views": {"gte": "100", "lte": "200"}, "author": {"ne": "bob"}}
    <<<<<<"v", "i", "e", "w", "s">>,
         <<<<"gte", <<"1", "0", "0">>>>, <<"lte", <<"2", "0", "0">>>>>>>>,
      <<<<"a", "u", "t", "h", "o", "r">>,
         <<<<"ne", <<"b", "o", "b">>>>>>>>>>,
    \* {"title": {"like": "H"}}
    <<<<<<"t", "i", "t", "l", "e">>,
         <<<<"like", <<"H">>>>>>>>>>>>

\* options.q (<<>>: no q)
SearchPool == <<
    <<>>,
    \* "AL"
    <<"A", "L">>>>

\* options.sort and options.order
SortPool == <<
    \* _sort= _order=
    [sort |-> <<>>,
     order |-> <<>>],
    \* _sort=views _order=desc
    [sort |-> <<<<"v", "i", "e", "w", "s">>>>,
     order |-> <<<<"d", "e", "s", "c">>>>],
    \* _sort=author,views _order=asc
    [sort |-> <<<<"a", "u", "t", "h", "o", "r">>, <<"v", "i", "e", "w", "s">>>>,
     order |-> <<<<"a", "s", "c">>>>],
    \* _sort=author _order=desc
    [sort |-> <<<<"a", "u", "t", "h", "o", "r">>>>,
     order |-> <<<<"d", "e", "s", "c">>>>],
    \* _sort=author,views _order=asc,desc
    [sort |-> <<<<"a", "u", "t", "h", "o", "r">>, <<"v", "i", "e", "w", "s">>>>,
     order |-> <<<<"a", "s", "c">>, <<"d", "e", "s", "c">>>>]>>

\* the records of the collections that are sorted: authors and views repeat,
\* and some records lack one of them
SortRecords == {
    \* {"id": 1, "author": "al", "views": 100}
    Obj(<<"i", "d">> :> Num(1)
        @@ <<"a", "u", "t", "h", "o", "r">> :> Str(<<"a", "l">>)
        @@ <<"v", "i", "e", "w", "s">> :> Num(100)),
    \* {"id": 2, "author": "bob", "views": 100}
    Obj(<<"i", "d">> :> Num(2)
        @@ <<"a", "u", "t", "h", "o", "r">> :> Str(<<"b", "o", "b">>)
        @@ <<"v", "i", "e", "w", "s">> :> Num(100)),
    \* {"id": 3, "views": 150}
    Obj(<<"i", "d">> :> Num(3)
        @@ <<"v", "i", "e", "w", "s">> :> Num(150)),
    \* {"id": 4, "author": "al", "views": 100}
    Obj(<<"i", "d">> :> Num(4)
        @@ <<"a", "u", "t", "h", "o", "r">> :> Str(<<"a", "l">>)
        @@ <<"v", "i", "e", "w", "s">> :> Num(100)),
    \* {"id": 5, "author": "al", "views": 250}
    Obj(<<"i", "d">> :> Num(5)
        @@ <<"a", "u", "t", "h", "o", "r">> :> Str(<<"a", "l">>)
        @@ <<"v", "i", "e", "w", "s">> :> Num(250))}

\* the longest collection that is sorted
MaxLen == 3

\* the largest page, limit, start and end the model draws
MaxPage == 2
MaxLimit == 2
MaxStart == 1
MaxEnd == 2

Optional(low, high) == {None} \cup {Some(n) : n \in low..high}

(***************************************************************************)
(* The rewriter as a state machine: the server is created with a routes    *)
(* file, then requests go through the middleware                           *)
(***************************************************************************)

\* createServer with options.routes: load the rules, build the middleware;
\* a load error is logged and rethrown, so the server does not start
CreateServer(i) ==
    /\ routesFile = 0
    /\ routesFile' = i
    /\ LET loaded == loadRewriteRules(RoutesFiles[i])
       IN  /\ loadError' = loaded.error
           /\ started' = ~loaded.error.thrown
           /\ sortedRules' = IF loaded.error.thrown THEN <<>>
                             ELSE createRewriterMiddleware(loaded.rules)
    /\ UNCHANGED <<reqUrl, outUrl, handled>>
    /\ UNCHANGED queryVars
    /\ UNCHANGED routerVars
    /\ UNCHANGED writeVars
    /\ UNCHANGED relationVars

\* one request through the rewriter middleware
HandleRequest(u) ==
    /\ started
    /\ reqUrl' = RequestUrls[u]
    /\ outUrl' = rewriterHandler(sortedRules, RequestUrls[u])
    /\ handled' = TRUE
    /\ UNCHANGED <<routesFile, loadError, sortedRules, started>>
    /\ UNCHANGED queryVars
    /\ UNCHANGED routerVars
    /\ UNCHANGED writeVars
    /\ UNCHANGED relationVars

InitRewrite ==
    /\ routesFile = 0
    /\ loadError = NoError
    /\ sortedRules = <<>>
    /\ started = FALSE
    /\ reqUrl = <<>>
    /\ outUrl = <<>>
    /\ handled = FALSE

\* the query engine at rest
InitQuery ==
    /\ qData = <<>>
    /\ qOptions = <<>>
    /\ qSorted = <<>>
    /\ qResult = <<>>
    /\ qTotal = 0
    /\ qDone = FALSE

\* the router before any request, over an empty store
\* no call of the store yet
NoCall ==
    [op |-> "", collectionName |-> <<>>, id |-> Undefined, data |-> Undefined,
     thrown |-> FALSE, result |-> Undefined, before |-> Undefined]

\* a writable server that has had no request with a body
InitWrite ==
    /\ readOnly = FALSE
    /\ reqMethod = ""
    /\ reqChildren = <<>>
    /\ reqBody = Undefined
    /\ dbCall = NoCall

InitRouter ==
    /\ dbData = <<>>
    /\ reqResource = <<>>
    /\ reqId = <<>>
    /\ InitWrite
    /\ reqQuery = <<>>
    /\ queryOptions = <<>>
    /\ resStatus = 0
    /\ resTotal = <<>>
    /\ resLink = <<>>
    /\ resBody = Undefined

\* the relationships before any call
\* no list has been expanded yet
NotExpanded == [done |-> FALSE, lists |-> <<>>]

InitRelations ==
    /\ relItems = <<>>
    /\ relParent = <<>>
    /\ relChild = <<>>
    /\ relSuffix = <<>>
    /\ relResult = <<>>
    /\ relDone = FALSE
    /\ relExpanded = NotExpanded

NextRewrite ==
    \/ \E i \in 1..Len(RoutesFiles) : CreateServer(i)
    \/ \E u \in 1..Len(RequestUrls) : HandleRequest(u)

\* the rewriter's initial state, the query engine at rest
InitRewriteSpec == InitRewrite /\ InitQuery /\ InitRouter /\ InitRelations

SpecRewrite == InitRewriteSpec /\ [][NextRewrite]_vars


(***************************************************************************)
(* The query engine: applyQuery applied once to inputs drawn at the start   *)
(***************************************************************************)

ApplyQuery ==
    /\ ~qDone
    /\ qSorted' = SortStage(FilterStage(qData, qOptions), qOptions)
    /\ qResult' = applyQuery(qData, qOptions).data
    /\ qTotal' = applyQuery(qData, qOptions).total
    /\ qDone' = TRUE
    /\ UNCHANGED <<qData, qOptions>>
    /\ UNCHANGED rewriteVars
    /\ UNCHANGED routerVars
    /\ UNCHANGED writeVars
    /\ UNCHANGED relationVars

InitQueryInputs ==
    /\ InitRewrite
    /\ \E d \in 1..Len(DataPool) : qData = DataPool[d]
    /\ \E f \in 1..Len(FilterPool), o \in 1..Len(OperatorPool),
          s \in 1..Len(SearchPool), k \in 1..Len(SortPool),
          page \in Optional(1, MaxPage), limit \in Optional(1, MaxLimit),
          start \in Optional(0, MaxStart), end \in Optional(0, MaxEnd) :
           qOptions = [filters |-> FilterPool[f],
                       operators |-> OperatorPool[o],
                       sort |-> SortPool[k].sort,
                       order |-> SortPool[k].order,
                       page |-> page,
                       limit |-> limit,
                       start |-> start,
                       end |-> end,
                       q |-> SearchPool[s]]
    /\ qSorted = <<>>
    /\ qResult = <<>>
    /\ qTotal = 0
    /\ qDone = FALSE
    /\ InitRouter
    /\ InitRelations

NextQuery == ApplyQuery

SpecQuery == InitQueryInputs /\ [][NextQuery]_vars

(***************************************************************************)
(* The sort of applyQuery: applyQuery applied once to a collection in any   *)
(* order, with a sort and nothing else                                     *)
(***************************************************************************)

InitSortInputs ==
    /\ InitRewrite
    /\ qData \in UNION {[1..n -> SortRecords] : n \in 0..MaxLen}
    /\ \E k \in 1..Len(SortPool) :
           qOptions = [filters |-> <<>>,
                       operators |-> <<>>,
                       sort |-> SortPool[k].sort,
                       order |-> SortPool[k].order,
                       page |-> None,
                       limit |-> None,
                       start |-> None,
                       end |-> None,
                       q |-> <<>>]
    /\ qSorted = <<>>
    /\ qResult = <<>>
    /\ qTotal = 0
    /\ qDone = FALSE
    /\ InitRouter
    /\ InitRelations

SpecSort == InitSortInputs /\ [][NextQuery]_vars

(***************************************************************************)
(* router.ts: GET /:resource on a store                                    *)
(***************************************************************************)

\* createRouter's defaults: options.idField || 'id' and
\* options.foreignKeySuffix || 'Id'
idField == <<"i", "d">>
foreignKeySuffix == <<"I", "d">>

\* the stores the router serves
Posts == <<
    \* {"id": 1, "title": "Hi Al", "author": "al", "views": 100}
    Obj(<<"i", "d">> :> Num(1)
        @@ <<"t", "i", "t", "l", "e">> :> Str(<<"H", "i", " ", "A", "l">>)
        @@ <<"a", "u", "t", "h", "o", "r">> :> Str(<<"a", "l">>)
        @@ <<"v", "i", "e", "w", "s">> :> Num(100)),
    \* {"id": 2, "title": "Yo", "author": "bob", "views": 250}
    Obj(<<"i", "d">> :> Num(2)
        @@ <<"t", "i", "t", "l", "e">> :> Str(<<"Y", "o">>)
        @@ <<"a", "u", "t", "h", "o", "r">> :> Str(<<"b", "o", "b">>)
        @@ <<"v", "i", "e", "w", "s">> :> Num(250)),
    \* {"id": "3", "author": "al", "views": 150}
    Obj(<<"i", "d">> :> Str(<<"3">>)
        @@ <<"a", "u", "t", "h", "o", "r">> :> Str(<<"a", "l">>)
        @@ <<"v", "i", "e", "w", "s">> :> Num(150))>>

Comments == <<
    \* {"id": 1, "postId": 1, "text": "a"}
    Obj(<<"i", "d">> :> Num(1)
        @@ <<"p", "o", "s", "t", "I", "d">> :> Num(1)
        @@ <<"t", "e", "x", "t">> :> Str(<<"a">>)),
    \* {"id": 2, "postId": 3, "text": "b"}
    Obj(<<"i", "d">> :> Num(2)
        @@ <<"p", "o", "s", "t", "I", "d">> :> Num(3)
        @@ <<"t", "e", "x", "t">> :> Str(<<"b">>)),
    \* {"id": 3, "postId": "1", "text": "c"}
    Obj(<<"i", "d">> :> Num(3)
        @@ <<"p", "o", "s", "t", "I", "d">> :> Str(<<"1">>)
        @@ <<"t", "e", "x", "t">> :> Str(<<"c">>)),
    \* {"id": 4, "text": "d"}
    Obj(<<"i", "d">> :> Num(4)
        @@ <<"t", "e", "x", "t">> :> Str(<<"d">>))>>

\* records that name their post in post_id, or in postId
Likes == <<
    \* {"id": 1, "post_id": 2}
    Obj(<<"i", "d">> :> Num(1)
        @@ <<"p", "o", "s", "t", "_", "i", "d">> :> Num(2)),
    \* {"id": 2, "postId": 2}
    Obj(<<"i", "d">> :> Num(2)
        @@ <<"p", "o", "s", "t", "I", "d">> :> Num(2))>>

\* a collection whose name does not end in a plain plural 's'
Categories == <<
    \* {"id": 1, "name": "tech"}
    Obj(<<"i", "d">> :> Num(1)
        @@ <<"n", "a", "m", "e">> :> Str(<<"t", "e", "c", "h">>))>>

Stores == <<
    \* {"posts": [...], "comments": [...], "likes": [...], "categories": [...],
    \*  "profile": {"name": "al"}}
    <<"p", "o", "s", "t", "s">> :> Arr(Posts)
        @@ <<"c", "o", "m", "m", "e", "n", "t", "s">> :> Arr(Comments)
        @@ <<"l", "i", "k", "e", "s">> :> Arr(Likes)
        @@ <<"c", "a", "t", "e", "g", "o", "r", "i", "e", "s">> :> Arr(Categories)
        @@ <<"p", "r", "o", "f", "i", "l", "e">> :> Obj(<<"n", "a", "m", "e">> :> Str(<<"a", "l">>)),
    \* {"posts": [], "comments": [...]}
    <<"p", "o", "s", "t", "s">> :> Arr(<<>>)
        @@ <<"c", "o", "m", "m", "e", "n", "t", "s">> :> Arr(Comments)>>

\* the resource names requests ask for: two collections, a singular
\* resource and a name no store has
Resources == {<<"p", "o", "s", "t", "s">>, <<"c", "o", "m", "m", "e", "n", "t", "s">>, <<"p", "r", "o", "f", "i", "l", "e">>, <<"n", "o", "p", "e">>}

\* a query parameter that is absent, or present with one of the values
Param(key, values) == {<<>>} \cup {<<<<key, Single(v)>>>> : v \in values}

\* values of _page, _limit, _start and _end that are not integers in range
BadTexts == {<<>>, <<"x">>, <<"2", "x">>, <<"-", "1">>}

\* req.query with nothing but window parameters, of every kind
WindowQueries ==
    {page \o limit \o start \o end :
         page \in Param(<<"_", "p", "a", "g", "e">>, BadTexts \cup {NumToString(n) : n \in 0..MaxPage}),
         limit \in Param(<<"_", "l", "i", "m", "i", "t">>, BadTexts \cup {NumToString(n) : n \in 0..MaxLimit}),
         start \in Param(<<"_", "s", "t", "a", "r", "t">>, BadTexts \cup {NumToString(n) : n \in 0..MaxStart}),
         end \in Param(<<"_", "e", "n", "d">>, BadTexts \cup {NumToString(n) : n \in 0..MaxEnd})}

\* the filters, operators and sorts of req.query
CriteriaQueries == {
    <<>>,
    \* author=al
    <<<<<<"a", "u", "t", "h", "o", "r">>, Single(<<"a", "l">>)>>>>,
    \* author=al&author=bob
    <<<<<<"a", "u", "t", "h", "o", "r">>, Multi(<<<<"a", "l">>, <<"b", "o", "b">>>>)>>>>,
    \* views_gte=150&views_lte=250
    <<<<<<"v", "i", "e", "w", "s", "_", "g", "t", "e">>, Single(<<"1", "5", "0">>)>>, <<<<"v", "i", "e", "w", "s", "_", "l", "t", "e">>, Single(<<"2", "5", "0">>)>>>>,
    \* _sort=views&_order=desc
    <<<<<<"_", "s", "o", "r", "t">>, Single(<<"v", "i", "e", "w", "s">>)>>, <<<<"_", "o", "r", "d", "e", "r">>, Single(<<"d", "e", "s", "c">>)>>>>}

\* req.query with criteria, a search, an embed and a page
PageQueries ==
    {criteria \o q \o embed \o page \o limit :
         criteria \in CriteriaQueries,
         q \in Param(<<"q">>, {<<>>, <<" ">>, <<"a", "l">>}),
         embed \in Param(<<"_", "e", "m", "b", "e", "d">>, {<<"c", "o", "m", "m", "e", "n", "t", "s">>}),
         page \in Param(<<"_", "p", "a", "g", "e">>, {NumToString(n) : n \in 1..MaxPage}),
         limit \in Param(<<"_", "l", "i", "m", "i", "t">>, {NumToString(n) : n \in 1..MaxLimit})}

\* the request as generateLinkHeader reads it: req.protocol, req.get('host'),
\* req.path and req.query
Request(resource, query) ==
    [protocol |-> <<"h", "t", "t", "p">>,
     host |-> <<"l", "o", "c", "a", "l", "h", "o", "s", "t">>,
     path |-> <<"/">> \o resource,
     query |-> query]

\* the body of the 404 of GET /:resource
NotFound(resource) ==
    Obj(<<"e", "r", "r", "o", "r">> :> Str(<<"R", "e", "s", "o", "u", "r", "c", "e", " ", "'">> \o resource \o <<"'", " ", "n", "o", "t", " ", "f", "o", "u", "n", "d">>))

\* router.get('/:resource'): 404 for a name the store does not have; the
\* query, the relationships and the two headers for a collection; a singular
\* resource as it is
ResourceAnswer(resource, query) ==
    LET data == getCollection(dbData, resource)
        options == parseQuery(query)
        applied == applyQuery(data.a, options)
        relations == parseRelationships(query)
    IN  /\ reqMethod' = "GET"
        /\ reqResource' = resource
        /\ reqQuery' = query
        /\ IF data.t = "undefined"
           THEN /\ resStatus' = 404
                /\ resBody' = NotFound(resource)
                /\ resTotal' = <<>>
                /\ resLink' = <<>>
                /\ UNCHANGED queryOptions
           ELSE IF data.t = "array"
           THEN /\ queryOptions' = options
                /\ resStatus' = 200
                /\ resTotal' = NumToString(applied.total)
                /\ resLink' = IF options.page.defined /\ options.limit.defined
                              THEN generateLinkHeader(Request(resource, query),
                                                      options.page.n, options.limit.n,
                                                      applied.total)
                              ELSE <<>>
                /\ resBody' = Arr(applyRelationships(applied.data, resource,
                                                     relations.embed, relations.expand,
                                                     dbData, idField, foreignKeySuffix))
           ELSE /\ resStatus' = 200
                /\ resBody' = data
                /\ resTotal' = <<>>
                /\ resLink' = <<>>
                /\ UNCHANGED queryOptions
        /\ reqId' = <<>>
        /\ reqChildren' = <<>>
        /\ reqBody' = Undefined
        /\ UNCHANGED <<dbData, readOnly, dbCall>>
        /\ UNCHANGED rewriteVars
        /\ UNCHANGED queryVars
        /\ UNCHANGED relationVars

\* the first request of a server: a GET leaves the store as it is, so the
\* model follows one request per server
GetResource(resource, query) ==
    /\ resStatus = 0
    /\ ResourceAnswer(resource, query)

\* a server over one of the stores, before any request
InitGet ==
    /\ InitRewrite
    /\ InitQuery
    /\ dbData \in {Stores[i] : i \in 1..Len(Stores)}
    /\ reqResource = <<>>
    /\ reqId = <<>>
    /\ InitWrite
    /\ reqQuery = <<>>
    /\ queryOptions = <<>>
    /\ resStatus = 0
    /\ resTotal = <<>>
    /\ resLink = <<>>
    /\ resBody = Undefined
    /\ InitRelations

NextGet ==
    \/ \E query \in WindowQueries : GetResource(<<"p", "o", "s", "t", "s">>, query)
    \/ \E resource \in Resources, query \in PageQueries : GetResource(resource, query)

SpecGet == InitGet /\ [][NextGet]_vars

\* db.isCollection(name)
isCollection(db, name) == getCollection(db, name).t = "array"

\* the test of getById's find and of the findIndex of update, patch and
\* delete: record[idField] === id || record[idField] === Number(id), for an
\* id that is a string or a number
MatchesId(item, id) ==
    /\ item.t = "object"
    /\ \/ StrictEquals(Field(item, idField), id)
       \/ /\ Field(item, idField).t = "number"
          /\ ~JsNumber(id).nan
          /\ Field(item, idField).n = JsNumber(id).n

\* collection.findIndex(...) + 1: the place of the first record the id
\* names, 0 when there is none or the name is no collection
FindIndex(db, collectionName, id) ==
    LET collection == getCollection(db, collectionName)
        hits == IF collection.t # "array" THEN {}
                ELSE {k \in 1..Len(collection.a) : MatchesId(collection.a[k], id)}
    IN  IF hits = {} THEN 0 ELSE CHOOSE k \in hits : \A j \in hits : k <= j

\* db.getById(collectionName, id): the first record the id names; Undefined
\* when there is none
getById(db, collectionName, id) ==
    IF FindIndex(db, collectionName, id) = 0 THEN Undefined
    ELSE getCollection(db, collectionName).a[FindIndex(db, collectionName, id)]

\* db.generateId(collectionName): one more than the largest numeric id, 1
\* when there is none or the name is no collection
generateId(db, collectionName) ==
    LET collection == getCollection(db, collectionName)
        ids == IF collection.t # "array" THEN {}
               ELSE {Field(collection.a[k], idField).n : k \in
                         {j \in 1..Len(collection.a) :
                              /\ collection.a[j].t = "object"
                              /\ Field(collection.a[j], idField).t = "number"
                              /\ Field(collection.a[j], idField).n > 0}}
    IN  IF ids = {} THEN 1 ELSE (CHOOSE n \in ids : \A m \in ids : m <= n) + 1

\* what a call of the store gives back: the store after it, whether it
\* threw, and the value returned or the message of the error
Returned(db, result) == [db |-> db, thrown |-> FALSE, result |-> result]
Thrown(db, message) == [db |-> db, thrown |-> TRUE, result |-> Str(message)]

\* true and false as values
Bool(b) == [t |-> "boolean", b |-> b]

\* db.create(collectionName, data): a collection is made for a name the
\* store does not have; the id is data's, or a generated one; an id getById
\* finds is refused; the record is pushed
create(db, collectionName, data) ==
    LET made == IF collectionName \in DOMAIN db THEN db
                ELSE (collectionName :> Arr(<<>>)) @@ db
        collection == made[collectionName]
        idValue == IF Field(data, idField).t # "undefined" THEN Field(data, idField)
                   ELSE Num(generateId(made, collectionName))
        newItem == Obj((idField :> idValue) @@ data.o)
    IN  IF collection.t # "array"
        THEN Thrown(db, <<"C", "a", "n", "n", "o", "t", " ", "c", "r", "e", "a", "t", "e", " ", "i", "n", " ">> \o collectionName \o <<":", " ", "n", "o", "t", " ", "a", " ", "c", "o", "l", "l", "e", "c", "t", "i", "o", "n">>)
        ELSE IF getById(made, collectionName, idValue).t # "undefined"
        THEN Thrown(made, <<"I", "t", "e", "m", " ", "w", "i", "t", "h", " ">> \o idField \o <<"=">> \o JsString(idValue) \o <<" ", "a", "l", "r", "e", "a", "d", "y", " ", "e", "x", "i", "s", "t", "s">>)
        ELSE Returned((collectionName :> Arr(Append(collection.a, newItem))) @@ made,
                      newItem)

\* db.update(collectionName, id, data): the record the id names becomes
\* { ...data, [idField]: its id }
update(db, collectionName, id, data) ==
    LET index == FindIndex(db, collectionName, id)
        collection == getCollection(db, collectionName)
        updatedItem == Obj((idField :> Field(collection.a[index], idField)) @@ data.o)
    IN  IF index = 0 THEN Returned(db, Undefined)
        ELSE Returned((collectionName :> Arr([collection.a EXCEPT ![index] = updatedItem]))
                          @@ db,
                      updatedItem)

\* db.patch(collectionName, id, data): the record the id names becomes
\* { ...currentItem, ...data without idField }
patch(db, collectionName, id, data) ==
    LET index == FindIndex(db, collectionName, id)
        collection == getCollection(db, collectionName)
        patchData == [key \in DOMAIN data.o \ {idField} |-> data.o[key]]
        patchedItem == Obj(patchData @@ collection.a[index].o)
    IN  IF index = 0 THEN Returned(db, Undefined)
        ELSE Returned((collectionName :> Arr([collection.a EXCEPT ![index] = patchedItem]))
                          @@ db,
                      patchedItem)

\* db.delete(collectionName, id): the record the id names is spliced out
delete(db, collectionName, id) ==
    LET index == FindIndex(db, collectionName, id)
        collection == getCollection(db, collectionName)
    IN  IF index = 0 THEN Returned(db, Bool(FALSE))
        ELSE Returned((collectionName :>
                           Arr(SubSeq(collection.a, 1, index - 1)
                               \o SubSeq(collection.a, index + 1, Len(collection.a))))
                          @@ db,
                      Bool(TRUE))

\* db.updateSingular(resourceName, data)
updateSingular(db, resourceName, data) ==
    Returned((resourceName :> data) @@ db, data)

\* the body of a 404 of GET /:resource/:id
ErrorBody(message) == Obj(<<"e", "r", "r", "o", "r">> :> Str(message))

\* the ids requests ask for
ItemIds == {<<"1">>, <<"2">>, <<"3">>, <<"9">>, <<"x">>}

\* req.query of a request for one record: relationships, by the names of
\* the collections and by the singular names the README uses
ItemQueries == {
    <<>>,
    \* _expand=post
    <<<<<<"_", "e", "x", "p", "a", "n", "d">>, Single(<<"p", "o", "s", "t">>)>>>>,
    \* _expand=posts
    <<<<<<"_", "e", "x", "p", "a", "n", "d">>, Single(<<"p", "o", "s", "t", "s">>)>>>>,
    \* _embed=comments
    <<<<<<"_", "e", "m", "b", "e", "d">>, Single(<<"c", "o", "m", "m", "e", "n", "t", "s">>)>>>>,
    \* _embed=comments,likes
    <<<<<<"_", "e", "m", "b", "e", "d">>, Single(<<"c", "o", "m", "m", "e", "n", "t", "s", ",", "l", "i", "k", "e", "s">>)>>>>,
    \* _embed=likes&_expand=posts&_expand=categories
    <<<<<<"_", "e", "m", "b", "e", "d">>, Single(<<"l", "i", "k", "e", "s">>)>>, <<<<"_", "e", "x", "p", "a", "n", "d">>, Multi(<<<<"p", "o", "s", "t", "s">>, <<"c", "a", "t", "e", "g", "o", "r", "i", "e", "s">>>>)>>>>}

\* router.get('/:resource/:id'): 404 when the resource is no collection or
\* has no such record; the record, with the relationships the query asks for
ItemAnswer(resource, id, query) ==
    LET item == getById(dbData, resource, Str(id))
        relations == parseRelationships(query)
    IN  /\ reqMethod' = "GET"
        /\ reqResource' = resource
        /\ reqId' = id
        /\ reqQuery' = query
        /\ IF ~isCollection(dbData, resource)
           THEN /\ resStatus' = 404
                /\ resBody' = ErrorBody(<<"C", "o", "l", "l", "e", "c", "t", "i", "o", "n", " ", "'">> \o resource \o <<"'", " ", "n", "o", "t", " ", "f", "o", "u", "n", "d">>)
           ELSE IF item.t = "undefined"
           THEN /\ resStatus' = 404
                /\ resBody' = ErrorBody(<<"I", "t", "e", "m", " ", "w", "i", "t", "h", " ", "i", "d", " ", "'">> \o id \o <<"'", " ", "n", "o", "t", " ", "f", "o", "u", "n", "d", " ", "i", "n", " ", "'">> \o resource \o <<"'">>)
           ELSE /\ resStatus' = 200
                /\ resBody' = IF Len(relations.embed) > 0 \/ Len(relations.expand) > 0
                              THEN applyRelationships(<<item>>, resource, relations.embed,
                                                      relations.expand, dbData, idField,
                                                      foreignKeySuffix)[1]
                              ELSE item
        /\ resTotal' = <<>>
        /\ resLink' = <<>>
        /\ reqChildren' = <<>>
        /\ reqBody' = Undefined
        /\ UNCHANGED <<dbData, queryOptions>>
        /\ UNCHANGED <<readOnly, dbCall>>
        /\ UNCHANGED rewriteVars
        /\ UNCHANGED queryVars
        /\ UNCHANGED relationVars

\* the first request of a server
GetItem(resource, id, query) ==
    /\ resStatus = 0
    /\ ItemAnswer(resource, id, query)

NextItem ==
    \E resource \in Resources, id \in ItemIds, query \in ItemQueries :
        GetItem(resource, id, query)

SpecItem == InitGet /\ [][NextItem]_vars

(***************************************************************************)
(* The relationships: embedChildren applied once to parents and a store    *)
(* drawn at the start                                                      *)
(***************************************************************************)

\* the records handed to embedChildren as parents: the posts, a post whose
\* id is text, and one that has a field named as the children are
ParentRecords ==
    {Posts[i] : i \in 1..Len(Posts)} \cup {
    \* {"id": "1", "title": "One"}
    Obj(<<"i", "d">> :> Str(<<"1">>)
        @@ <<"t", "i", "t", "l", "e">> :> Str(<<"O", "n", "e">>)),
    \* {"id": 9, "comments": "none"}
    Obj(<<"i", "d">> :> Num(9)
        @@ <<"c", "o", "m", "m", "e", "n", "t", "s">> :> Str(<<"n", "o", "n", "e">>))}

\* the longest list of parents
MaxItems == 2

EmbedChildren ==
    /\ ~relDone
    /\ relResult' = embedChildren(relItems, relParent, relChild, dbData, idField, relSuffix)
    /\ relDone' = TRUE
    /\ UNCHANGED <<relItems, relParent, relChild, relSuffix, relExpanded, dbData>>
    /\ UNCHANGED <<reqResource, reqId, reqQuery, queryOptions, resStatus, resTotal, resLink, resBody>>
    /\ UNCHANGED writeVars
    /\ UNCHANGED rewriteVars
    /\ UNCHANGED queryVars

InitRelationInputs ==
    /\ InitRewrite
    /\ InitQuery
    /\ dbData \in {Stores[i] : i \in 1..Len(Stores)}
    /\ reqResource = <<>>
    /\ reqId = <<>>
    /\ InitWrite
    /\ reqQuery = <<>>
    /\ queryOptions = <<>>
    /\ resStatus = 0
    /\ resTotal = <<>>
    /\ resLink = <<>>
    /\ resBody = Undefined
    /\ relItems \in UNION {[1..n -> ParentRecords] : n \in 0..MaxItems}
    /\ relParent \in {<<"p", "o", "s", "t", "s">>, <<"p", "o", "s", "t">>}
    /\ relChild \in {<<"c", "o", "m", "m", "e", "n", "t", "s">>, <<"l", "i", "k", "e", "s">>, <<"p", "r", "o", "f", "i", "l", "e">>, <<"n", "o", "p", "e">>}
    /\ relSuffix \in {<<"I", "d">>, <<"_", "i", "d">>}
    /\ relResult = <<>>
    /\ relDone = FALSE
    /\ relExpanded = NotExpanded

NextRelations == EmbedChildren

SpecRelations == InitRelationInputs /\ [][NextRelations]_vars

(***************************************************************************)
(* The relationships: expandParent applied once to children and a store    *)
(* drawn at the start                                                      *)
(***************************************************************************)

\* the records handed to expandParent as children: the comments and likes,
\* and records with a parent that is not there, with a category, and with a
\* field named as the parent is
ChildItems ==
    {Comments[i] : i \in 1..Len(Comments)} \cup {Likes[i] : i \in 1..Len(Likes)} \cup {
    \* {"id": 7, "postId": 99}
    Obj(<<"i", "d">> :> Num(7)
        @@ <<"p", "o", "s", "t", "I", "d">> :> Num(99)),
    \* {"id": 8, "categorieId": "1"}
    Obj(<<"i", "d">> :> Num(8)
        @@ <<"c", "a", "t", "e", "g", "o", "r", "i", "e", "I", "d">> :> Str(<<"1">>)),
    \* {"id": 9, "postId": 2, "post": "old"}
    Obj(<<"i", "d">> :> Num(9)
        @@ <<"p", "o", "s", "t", "I", "d">> :> Num(2)
        @@ <<"p", "o", "s", "t">> :> Str(<<"o", "l", "d">>))}

ExpandParent ==
    /\ ~relDone
    /\ relResult' = expandParent(relItems, relChild, relParent, dbData, idField, relSuffix)
    /\ relDone' = TRUE
    /\ UNCHANGED <<relItems, relParent, relChild, relSuffix, relExpanded, dbData>>
    /\ UNCHANGED <<reqResource, reqId, reqQuery, queryOptions, resStatus, resTotal, resLink, resBody>>
    /\ UNCHANGED writeVars
    /\ UNCHANGED rewriteVars
    /\ UNCHANGED queryVars

InitExpandInputs ==
    /\ InitRewrite
    /\ InitQuery
    /\ dbData \in {Stores[i] : i \in 1..Len(Stores)}
    /\ reqResource = <<>>
    /\ reqId = <<>>
    /\ InitWrite
    /\ reqQuery = <<>>
    /\ queryOptions = <<>>
    /\ resStatus = 0
    /\ resTotal = <<>>
    /\ resLink = <<>>
    /\ resBody = Undefined
    /\ relItems \in UNION {[1..n -> ChildItems] : n \in 0..MaxItems}
    /\ relParent \in {<<"p", "o", "s", "t", "s">>, <<"p", "o", "s", "t">>, <<"c", "a", "t", "e", "g", "o", "r", "i", "e", "s">>, <<"p", "r", "o", "f", "i", "l", "e">>, <<"n", "o", "p", "e">>}
    /\ relChild \in {<<"c", "o", "m", "m", "e", "n", "t", "s">>}
    /\ relSuffix \in {<<"I", "d">>, <<"_", "i", "d">>}
    /\ relResult = <<>>
    /\ relDone = FALSE
    /\ relExpanded = NotExpanded

NextExpand == ExpandParent

SpecExpand == InitExpandInputs /\ [][NextExpand]_vars

(***************************************************************************)
(* The relationships: embedChildren applied to stored parents, then        *)
(* expandParent applied to each list it embedded                           *)
(***************************************************************************)

\* stores for the round trip: one whose comments all name a post that is
\* there, by a number or by text, and whose likes do so in post_id; the
\* first store, which has a comment without a post; and one with two posts
\* whose ids are 1 and "1"
RoundTripStores == <<
    <<"p", "o", "s", "t", "s">> :> Arr(Posts)
        @@ <<"c", "o", "m", "m", "e", "n", "t", "s">> :> Arr(SubSeq(Comments, 1, 3))
        @@ <<"l", "i", "k", "e", "s">> :> Arr(SubSeq(Likes, 1, 1)),
    Stores[1],
    <<"p", "o", "s", "t", "s">> :> Arr(Append(Posts, Obj(<<"i", "d">> :> Str(<<"1">>)
                                      @@ <<"t", "i", "t", "l", "e">> :> Str(<<"O", "n", "e">>))))
        @@ <<"c", "o", "m", "m", "e", "n", "t", "s">> :> Arr(SubSeq(Comments, 1, 3))
        @@ <<"l", "i", "k", "e", "s">> :> Arr(SubSeq(Likes, 1, 1))>>

\* embedChildren over records of the store's parent collection
EmbedStored ==
    /\ ~relDone
    /\ relResult' = embedChildren(relItems, relParent, relChild, dbData, idField, relSuffix)
    /\ relDone' = TRUE
    /\ UNCHANGED <<relItems, relParent, relChild, relSuffix, relExpanded, dbData>>
    /\ UNCHANGED <<reqResource, reqId, reqQuery, queryOptions, resStatus, resTotal, resLink, resBody>>
    /\ UNCHANGED writeVars
    /\ UNCHANGED rewriteVars
    /\ UNCHANGED queryVars

\* expandParent over each list of children embedChildren attached
ExpandEmbedded ==
    /\ relDone
    /\ ~relExpanded.done
    /\ relExpanded' =
           [done |-> TRUE,
            lists |-> [i \in 1..Len(relResult) |->
                           IF Field(relResult[i], relChild).t = "array"
                           THEN expandParent(Field(relResult[i], relChild).a, relChild,
                                             relParent, dbData, idField, relSuffix)
                           ELSE <<>>]]
    /\ UNCHANGED <<relItems, relParent, relChild, relSuffix, relResult, relDone, dbData>>
    /\ UNCHANGED <<reqResource, reqId, reqQuery, queryOptions, resStatus, resTotal, resLink, resBody>>
    /\ UNCHANGED writeVars
    /\ UNCHANGED rewriteVars
    /\ UNCHANGED queryVars

InitRoundTrip ==
    /\ InitRewrite
    /\ InitQuery
    /\ dbData \in {RoundTripStores[i] : i \in 1..Len(RoundTripStores)}
    /\ reqResource = <<>>
    /\ reqId = <<>>
    /\ InitWrite
    /\ reqQuery = <<>>
    /\ queryOptions = <<>>
    /\ resStatus = 0
    /\ resTotal = <<>>
    /\ resLink = <<>>
    /\ resBody = Undefined
    /\ relParent = <<"p", "o", "s", "t", "s">>
    /\ relItems \in UNION {[1..n -> {dbData[relParent].a[k] : k \in 1..Len(dbData[relParent].a)}] :
                               n \in 0..MaxItems}
    /\ relChild \in {<<"c", "o", "m", "m", "e", "n", "t", "s">>, <<"l", "i", "k", "e", "s">>}
    /\ relSuffix \in {<<"I", "d">>, <<"_", "i", "d">>}
    /\ relResult = <<>>
    /\ relDone = FALSE
    /\ relExpanded = NotExpanded

NextRoundTrip == EmbedStored \/ ExpandEmbedded

SpecRoundTrip == InitRoundTrip /\ [][NextRoundTrip]_vars

(***************************************************************************)
(* Calls on a caller's list, one after another, over a store               *)
(***************************************************************************)

\* the options of the calls of applyQuery: nothing, a sort, a filter, a
\* filter and a sort, a sort and a limit
CallOptions == {
    [filters |-> FilterPool[f], operators |-> <<>>, sort |-> SortPool[k].sort,
     order |-> SortPool[k].order, page |-> None, limit |-> limit, start |-> None,
     end |-> None, q |-> <<>>] :
        f \in 1..2, k \in 1..3, limit \in {None, Some(1)}}

\* the records of the caller's list
CallRecords ==
    {Posts[i] : i \in 1..Len(Posts)} \cup {Comments[i] : i \in 1..Len(Comments)}

CallApplyQuery(options) ==
    LET call == applyQueryCall(relItems, options)
    IN  /\ relItems' = call.items
        /\ relResult' = call.result
        /\ relDone' = TRUE
        /\ UNCHANGED <<relParent, relChild, relSuffix, relExpanded>>
        /\ UNCHANGED routerVars
        /\ UNCHANGED writeVars
        /\ UNCHANGED rewriteVars
        /\ UNCHANGED queryVars

CallEmbedChildren(childCollection) ==
    LET call == embedChildrenCall(relItems, relParent, childCollection, dbData, idField,
                                  relSuffix)
    IN  /\ relItems' = call.items
        /\ dbData' = call.db
        /\ relResult' = call.result
        /\ relDone' = TRUE
        /\ UNCHANGED <<relParent, relChild, relSuffix, relExpanded>>
        /\ UNCHANGED <<reqResource, reqId, reqQuery, queryOptions, resStatus, resTotal, resLink, resBody>>
        /\ UNCHANGED writeVars
    /\ UNCHANGED writeVars
        /\ UNCHANGED rewriteVars
        /\ UNCHANGED queryVars

CallExpandParent(parentCollection) ==
    LET call == expandParentCall(relItems, relParent, parentCollection, dbData, idField,
                                 relSuffix)
    IN  /\ relItems' = call.items
        /\ dbData' = call.db
        /\ relResult' = call.result
        /\ relDone' = TRUE
        /\ UNCHANGED <<relParent, relChild, relSuffix, relExpanded>>
        /\ UNCHANGED <<reqResource, reqId, reqQuery, queryOptions, resStatus, resTotal, resLink, resBody>>
        /\ UNCHANGED writeVars
    /\ UNCHANGED writeVars
        /\ UNCHANGED rewriteVars
        /\ UNCHANGED queryVars

CallApplyRelationships(embed, expand) ==
    LET call == applyRelationshipsCall(relItems, relParent, embed, expand, dbData, idField,
                                       relSuffix)
    IN  /\ relItems' = call.items
        /\ dbData' = call.db
        /\ relResult' = call.result
        /\ relDone' = TRUE
        /\ UNCHANGED <<relParent, relChild, relSuffix, relExpanded>>
        /\ UNCHANGED <<reqResource, reqId, reqQuery, queryOptions, resStatus, resTotal, resLink, resBody>>
        /\ UNCHANGED writeVars
    /\ UNCHANGED writeVars
        /\ UNCHANGED rewriteVars
        /\ UNCHANGED queryVars

InitCalls ==
    /\ InitRewrite
    /\ InitQuery
    /\ dbData \in {Stores[i] : i \in 1..Len(Stores)}
    /\ reqResource = <<>>
    /\ reqId = <<>>
    /\ InitWrite
    /\ reqQuery = <<>>
    /\ queryOptions = <<>>
    /\ resStatus = 0
    /\ resTotal = <<>>
    /\ resLink = <<>>
    /\ resBody = Undefined
    /\ relItems \in UNION {[1..n -> CallRecords] : n \in 0..MaxItems}
    /\ relParent \in {<<"p", "o", "s", "t", "s">>, <<"c", "o", "m", "m", "e", "n", "t", "s">>}
    /\ relChild = <<>>
    /\ relSuffix = foreignKeySuffix
    /\ relResult = <<>>
    /\ relDone = FALSE
    /\ relExpanded = NotExpanded

NextCalls ==
    \/ \E options \in CallOptions : CallApplyQuery(options)
    \/ \E childCollection \in {<<"c", "o", "m", "m", "e", "n", "t", "s">>, <<"l", "i", "k", "e", "s">>, <<"n", "o", "p", "e">>} :
           CallEmbedChildren(childCollection)
    \/ \E parentCollection \in {<<"p", "o", "s", "t", "s">>, <<"n", "o", "p", "e">>} : CallExpandParent(parentCollection)
    \/ \E embed \in {<<>>, <<<<"c", "o", "m", "m", "e", "n", "t", "s">>>>, <<<<"c", "o", "m", "m", "e", "n", "t", "s">>, <<"l", "i", "k", "e", "s">>>>},
          expand \in {<<>>, <<<<"p", "o", "s", "t", "s">>>>} :
           CallApplyRelationships(embed, expand)

SpecCalls == InitCalls /\ [][NextCalls]_vars

(***************************************************************************)
(* database.ts: create, update, patch and delete, one call after another   *)
(***************************************************************************)

\* the most records a collection is let grow to
MaxRecords == 2

\* the collections the store starts with under posts: none, one record
\* whose id is text, and two whose ids are a number and text; the ids of
\* each differ also as text
InitialCollections == <<
    <<>>,
    \* [{"id": "1", "title": "One"}]
    <<Obj(<<"i", "d">> :> Str(<<"1">>) @@ <<"t", "i", "t", "l", "e">> :> Str(<<"O", "n", "e">>))>>,
    \* [{"id": 1, "title": "One"}, {"id": "3"}]
    <<Obj(<<"i", "d">> :> Num(1) @@ <<"t", "i", "t", "l", "e">> :> Str(<<"O", "n", "e">>)),
      Obj(<<"i", "d">> :> Str(<<"3">>))>>>>

\* the data of the calls: without an id, and with an id that is text or a
\* number
DbData == {
    \* {"title": "New"}
    Obj(<<"t", "i", "t", "l", "e">> :> Str(<<"N", "e", "w">>)),
    \* {"id": "1"}
    Obj(<<"i", "d">> :> Str(<<"1">>)),
    \* {"id": 1, "title": "New"}
    Obj(<<"i", "d">> :> Num(1) @@ <<"t", "i", "t", "l", "e">> :> Str(<<"N", "e", "w">>))}

\* the ids of the calls
DbIds == {Num(1), Str(<<"1">>), Str(<<"3">>), Str(<<"x">>)}

\* the names of the calls: a collection, a singular resource, a name the
\* store does not have
DbNames == {<<"p", "o", "s", "t", "s">>, <<"p", "r", "o", "f", "i", "l", "e">>, <<"n", "o", "p", "e">>}

\* the records the store holds in its collections
RecordCount(db) ==
    LET names == {name \in DOMAIN db : db[name].t = "array"}
        RECURSIVE Sum(_)
        Sum(rest) == IF rest = {} THEN 0
                     ELSE LET name == CHOOSE n \in rest : TRUE
                          IN  Len(db[name].a) + Sum(rest \ {name})
    IN  Sum(names)

\* the record of a call
Call(op, collectionName, id, data, call) ==
    [op |-> op, collectionName |-> collectionName, id |-> id, data |-> data,
     thrown |-> call.thrown, result |-> call.result,
     before |-> getCollection(dbData, collectionName)]

DbCreate(collectionName, data) ==
    /\ RecordCount(dbData) < MaxRecords
    /\ dbData' = create(dbData, collectionName, data).db
    /\ dbCall' = Call("create", collectionName, Undefined, data,
                      create(dbData, collectionName, data))
    /\ UNCHANGED <<reqResource, reqId, reqQuery, queryOptions, resStatus, resTotal, resLink, resBody>>
    /\ UNCHANGED <<readOnly, reqMethod, reqChildren, reqBody>>
    /\ UNCHANGED rewriteVars
    /\ UNCHANGED queryVars
    /\ UNCHANGED relationVars

DbUpdate(collectionName, id, data) ==
    /\ dbData' = update(dbData, collectionName, id, data).db
    /\ dbCall' = Call("update", collectionName, id, data,
                      update(dbData, collectionName, id, data))
    /\ UNCHANGED <<reqResource, reqId, reqQuery, queryOptions, resStatus, resTotal, resLink, resBody>>
    /\ UNCHANGED <<readOnly, reqMethod, reqChildren, reqBody>>
    /\ UNCHANGED rewriteVars
    /\ UNCHANGED queryVars
    /\ UNCHANGED relationVars

DbPatch(collectionName, id, data) ==
    /\ dbData' = patch(dbData, collectionName, id, data).db
    /\ dbCall' = Call("patch", collectionName, id, data,
                      patch(dbData, collectionName, id, data))
    /\ UNCHANGED <<reqResource, reqId, reqQuery, queryOptions, resStatus, resTotal, resLink, resBody>>
    /\ UNCHANGED <<readOnly, reqMethod, reqChildren, reqBody>>
    /\ UNCHANGED rewriteVars
    /\ UNCHANGED queryVars
    /\ UNCHANGED relationVars

DbDelete(collectionName, id) ==
    /\ dbData' = delete(dbData, collectionName, id).db
    /\ dbCall' = Call("delete", collectionName, id, Undefined,
                      delete(dbData, collectionName, id))
    /\ UNCHANGED <<reqResource, reqId, reqQuery, queryOptions, resStatus, resTotal, resLink, resBody>>
    /\ UNCHANGED <<readOnly, reqMethod, reqChildren, reqBody>>
    /\ UNCHANGED rewriteVars
    /\ UNCHANGED queryVars
    /\ UNCHANGED relationVars

InitStore ==
    /\ InitRewrite
    /\ InitQuery
    /\ InitRelations
    /\ \E c \in 1..Len(InitialCollections) :
           dbData = <<"p", "o", "s", "t", "s">> :> Arr(InitialCollections[c])
                        @@ <<"p", "r", "o", "f", "i", "l", "e">> :> Obj(<<"n", "a", "m", "e">> :> Str(<<"a", "l">>))
    /\ reqResource = <<>>
    /\ reqId = <<>>
    /\ InitWrite
    /\ reqQuery = <<>>
    /\ queryOptions = <<>>
    /\ resStatus = 0
    /\ resTotal = <<>>
    /\ resLink = <<>>
    /\ resBody = Undefined

NextStore ==
    \/ \E collectionName \in DbNames, data \in DbData : DbCreate(collectionName, data)
    \/ \E collectionName \in DbNames, id \in DbIds, data \in DbData :
           DbUpdate(collectionName, id, data)
    \/ \E collectionName \in DbNames, id \in DbIds, data \in DbData :
           DbPatch(collectionName, id, data)
    \/ \E collectionName \in DbNames, id \in DbIds : DbDelete(collectionName, id)

SpecStore == InitStore /\ [][NextStore]_vars

(***************************************************************************)
(* router.ts and server.ts: the write handlers, one request after another  *)
(***************************************************************************)

\* what a handler answers and the store it leaves
Response(status, body, db) == [status |-> status, body |-> body, db |-> db]

\* res.status(403).json({ error: 'Read-only mode enabled' })
Forbidden(db) == Response(403, ErrorBody(<<"R", "e", "a", "d", "-", "o", "n", "l", "y", " ", "m", "o", "d", "e", " ", "e", "n", "a", "b", "l", "e", "d">>), db)

\* res.status(400).json({ error: 'Request body must be a JSON object' })
BadBody(db) == Response(400, ErrorBody(<<"R", "e", "q", "u", "e", "s", "t", " ", "b", "o", "d", "y", " ", "m", "u", "s", "t", " ", "b", "e", " ", "a", " ", "J", "S", "O", "N", " ", "o", "b", "j", "e", "c", "t">>), db)

\* res.status(404).json({ error: `Collection '${resource}' not found` })
NoCollection(db, resource) ==
    Response(404, ErrorBody(<<"C", "o", "l", "l", "e", "c", "t", "i", "o", "n", " ", "'">> \o resource \o <<"'", " ", "n", "o", "t", " ", "f", "o", "u", "n", "d">>), db)

\* res.status(404).json({ error: `Item with id '${id}' not found in '${resource}'` })
NoItem(db, resource, id) ==
    Response(404, ErrorBody(<<"I", "t", "e", "m", " ", "w", "i", "t", "h", " ", "i", "d", " ", "'">> \o id \o <<"'", " ", "n", "o", "t", " ", "f", "o", "u", "n", "d", " ", "i", "n", " ", "'">> \o resource \o <<"'">>), db)

\* the answer to a call of the store that may throw: the status for what it
\* returned, or 400 with the error's message
Caught(call, status) ==
    IF call.thrown THEN Response(400, ErrorBody(call.result.s), call.db)
    ELSE Response(status, call.result, call.db)

\* a post handler that does not look at readOnly
postResource_writable(db, ro, resource, data) ==
    IF data.t # "object" THEN BadBody(db)
    ELSE IF ~isCollection(db, resource) /\ getCollection(db, resource).t # "undefined"
    THEN Caught(updateSingular(db, resource, data), 200)
    ELSE Caught(create(db, resource, data), 201)

\* router.post('/:parent/:parentId/:children')
postNested(db, ro, parent, parentId, children, data) ==
    IF ro THEN Forbidden(db)
    ELSE IF data.t # "object" THEN BadBody(db)
    ELSE IF ~isCollection(db, parent) THEN NoCollection(db, parent)
    ELSE IF getById(db, parent, Str(parentId)).t = "undefined"
    THEN Response(404, ErrorBody(<<"P", "a", "r", "e", "n", "t", " ", "i", "t", "e", "m", " ", "w", "i", "t", "h", " ", "i", "d", " ", "'">> \o parentId \o <<"'", " ", "n", "o", "t", " ", "f", "o", "u", "n", "d", " ", "i", "n", " ", "'">> \o parent \o <<"'">>), db)
    ELSE Caught(create(db, children,
                       Obj((getForeignKey(parent, foreignKeySuffix) :> Str(parentId))
                           @@ data.o)),
                201)

\* router.post('/:resource')
postResource(db, ro, resource, data) ==
    IF ro THEN Forbidden(db)
    ELSE IF data.t # "object" THEN BadBody(db)
    ELSE IF ~isCollection(db, resource) /\ getCollection(db, resource).t # "undefined"
    THEN Caught(updateSingular(db, resource, data), 200)
    ELSE Caught(create(db, resource, data), 201)

\* router.put('/:resource/:id')
putItem(db, ro, resource, id, data) ==
    IF ro THEN Forbidden(db)
    ELSE IF data.t # "object" THEN BadBody(db)
    ELSE IF ~isCollection(db, resource) THEN NoCollection(db, resource)
    ELSE IF update(db, resource, Str(id), data).result.t = "undefined"
    THEN NoItem(db, resource, id)
    ELSE Caught(update(db, resource, Str(id), data), 200)

\* router.patch('/:resource/:id')
patchItem(db, ro, resource, id, data) ==
    IF ro THEN Forbidden(db)
    ELSE IF data.t # "object" THEN BadBody(db)
    ELSE IF ~isCollection(db, resource) THEN NoCollection(db, resource)
    ELSE IF patch(db, resource, Str(id), data).result.t = "undefined"
    THEN NoItem(db, resource, id)
    ELSE Caught(patch(db, resource, Str(id), data), 200)

\* router.put('/:resource')
putResource(db, ro, resource, data) ==
    IF ro THEN Forbidden(db)
    ELSE IF data.t # "object" THEN BadBody(db)
    ELSE IF isCollection(db, resource)
    THEN Response(400, ErrorBody(<<"C", "a", "n", "n", "o", "t", " ", "P", "U", "T", " ", "t", "o", " ", "c", "o", "l", "l", "e", "c", "t", "i", "o", "n", " ", "'">> \o resource \o <<"'", ".", " ", "U", "s", "e", " ", "P", "O", "S", "T", " ", "o", "r", " ", "P", "U", "T", " ", "/">> \o resource \o <<"/", ":", "i", "d">>), db)
    ELSE Caught(updateSingular(db, resource, data), 200)

\* router.patch('/:resource')
patchResource(db, ro, resource, data) ==
    IF ro THEN Forbidden(db)
    ELSE IF data.t # "object" THEN BadBody(db)
    ELSE IF isCollection(db, resource)
    THEN Response(400, ErrorBody(<<"C", "a", "n", "n", "o", "t", " ", "P", "A", "T", "C", "H", " ", "c", "o", "l", "l", "e", "c", "t", "i", "o", "n", " ", "'">> \o resource \o <<"'", ".", " ", "U", "s", "e", " ", "P", "A", "T", "C", "H", " ", "/">> \o resource \o <<"/", ":", "i", "d">>), db)
    ELSE IF getCollection(db, resource).t # "object"
    THEN Response(404, ErrorBody(<<"R", "e", "s", "o", "u", "r", "c", "e", " ", "'">> \o resource \o <<"'", " ", "n", "o", "t", " ", "f", "o", "u", "n", "d">>), db)
    ELSE Caught(updateSingular(db, resource,
                               Obj(data.o @@ getCollection(db, resource).o)),
                200)

\* router.delete('/:resource/:id')
deleteItem(db, ro, resource, id) ==
    IF ro THEN Forbidden(db)
    ELSE IF ~isCollection(db, resource) THEN NoCollection(db, resource)
    ELSE IF ~delete(db, resource, Str(id)).result.b THEN NoItem(db, resource, id)
    ELSE Response(204, Undefined, delete(db, resource, Str(id)).db)

\* server.ts's last middleware: res.status(404).json({ error: 'Not Found' })
notFoundHandler(db) == Response(404, ErrorBody(<<"N", "o", "t", " ", "F", "o", "u", "n", "d">>), db)

\* the methods and numbers of path segments no route of the router takes
Unrouted ==
    {<<"POST", 2>>, <<"PUT", 3>>, <<"PATCH", 3>>, <<"DELETE", 1>>, <<"DELETE", 3>>}

\* the store of the read-only tests, with a singular resource
WriteStore ==
    <<"p", "o", "s", "t", "s">> :> Arr(<<Obj(<<"i", "d">> :> Num(1) @@ <<"t", "i", "t", "l", "e">> :> Str(<<"P", "o", "s", "t", " ", "1">>))>>)
        @@ <<"p", "r", "o", "f", "i", "l", "e">> :> Obj(<<"n", "a", "m", "e">> :> Str(<<"a", "l">>))

\* the names, ids and bodies of the requests
WriteNames == {<<"p", "o", "s", "t", "s">>, <<"p", "r", "o", "f", "i", "l", "e">>}
WriteIds == {<<"1">>, <<"x">>}
WriteBodies == {
    \* {"title": "New"}
    Obj(<<"t", "i", "t", "l", "e">> :> Str(<<"N", "e", "w">>)),
    \* {"id": 1, "title": "Updated"}
    Obj(<<"i", "d">> :> Num(1) @@ <<"t", "i", "t", "l", "e">> :> Str(<<"U", "p", "d", "a", "t", "e", "d">>))}

\* a request with a body is answered
Answer(method, resource, id, children, body, response) ==
    /\ reqMethod' = method
    /\ reqResource' = resource
    /\ reqId' = id
    /\ reqChildren' = children
    /\ reqBody' = body
    /\ reqQuery' = <<>>
    /\ resStatus' = response.status
    /\ resBody' = response.body
    /\ resTotal' = <<>>
    /\ resLink' = <<>>
    /\ dbData' = response.db
    /\ UNCHANGED <<readOnly, dbCall, queryOptions>>
    /\ UNCHANGED rewriteVars
    /\ UNCHANGED queryVars
    /\ UNCHANGED relationVars

PostNested(parent, parentId, children, body) ==
    /\ RecordCount(dbData) < MaxRecords
    /\ Answer("POST", parent, parentId, children, body,
              postNested(dbData, readOnly, parent, parentId, children, body))

PostResource(resource, body) ==
    /\ RecordCount(dbData) < MaxRecords
    /\ Answer("POST", resource, <<>>, <<>>, body,
              postResource(dbData, readOnly, resource, body))

PutItem(resource, id, body) ==
    Answer("PUT", resource, id, <<>>, body, putItem(dbData, readOnly, resource, id, body))

PatchItem(resource, id, body) ==
    Answer("PATCH", resource, id, <<>>, body,
           patchItem(dbData, readOnly, resource, id, body))

PutResource(resource, body) ==
    Answer("PUT", resource, <<>>, <<>>, body, putResource(dbData, readOnly, resource, body))

PatchResource(resource, body) ==
    Answer("PATCH", resource, <<>>, <<>>, body,
           patchResource(dbData, readOnly, resource, body))

DeleteItem(resource, id) ==
    Answer("DELETE", resource, id, <<>>, Undefined,
           deleteItem(dbData, readOnly, resource, id))

\* a write request no route takes reaches the 404 handler
NoRoute(method, resource, id, children) ==
    /\ <<method, 1 + (IF id = <<>> THEN 0 ELSE 1) + (IF children = <<>> THEN 0 ELSE 1)>>
           \in Unrouted
    /\ id = <<>> => children = <<>>
    /\ Answer(method, resource, id, children, Undefined, notFoundHandler(dbData))

\* a server over the store, read-only or not
InitWriteServer ==
    /\ InitRewrite
    /\ InitQuery
    /\ InitRelations
    /\ dbData = WriteStore
    /\ reqResource = <<>>
    /\ reqId = <<>>
    /\ readOnly \in BOOLEAN
    /\ reqMethod = ""
    /\ reqChildren = <<>>
    /\ reqBody = Undefined
    /\ dbCall = NoCall
    /\ reqQuery = <<>>
    /\ queryOptions = <<>>
    /\ resStatus = 0
    /\ resTotal = <<>>
    /\ resLink = <<>>
    /\ resBody = Undefined

NextWrite ==
    \/ \E parent \in WriteNames, parentId \in WriteIds, children \in WriteNames,
          body \in WriteBodies :
           PostNested(parent, parentId, children, body)
    \/ \E resource \in WriteNames, body \in WriteBodies : PostResource(resource, body)
    \/ \E resource \in WriteNames, id \in WriteIds, body \in WriteBodies :
           PutItem(resource, id, body)
    \/ \E resource \in WriteNames, id \in WriteIds, body \in WriteBodies :
           PatchItem(resource, id, body)
    \/ \E resource \in WriteNames, body \in WriteBodies : PutResource(resource, body)
    \/ \E resource \in WriteNames, body \in WriteBodies : PatchResource(resource, body)
    \/ \E resource \in WriteNames, id \in WriteIds : DeleteItem(resource, id)
    \/ \E method \in {"POST", "PUT", "PATCH", "DELETE"},
          id \in {<<"1">>, <<>>}, children \in {<<"p", "o", "s", "t", "s">>, <<>>} :
           NoRoute(method, <<"p", "o", "s", "t", "s">>, id, children)
    \/ \E resource \in Resources : ResourceAnswer(resource, <<>>)
    \/ \E resource \in WriteNames, id \in WriteIds : ItemAnswer(resource, id, <<>>)

SpecWrite == InitWriteServer /\ [][NextWrite]_vars

(***************************************************************************)
(* rewriteUrl applied once to a URL and a rule drawn at the start           *)
(***************************************************************************)

\* rules whose target uses a placeholder once, twice, or two of them
SubstitutionRules == <<
    \* "/posts/:id": "/items/:id"
    <<<<"/", "p", "o", "s", "t", "s", "/", ":", "i", "d">>,
      <<"/", "i", "t", "e", "m", "s", "/", ":", "i", "d">>>>,
    \* "/t/:a/:b": "/u/:a/:b"
    <<<<"/", "t", "/", ":", "a", "/", ":", "b">>,
      <<"/", "u", "/", ":", "a", "/", ":", "b">>>>,
    \* "/r/*": "/s/$1/$1"
    <<<<"/", "r", "/", "*">>,
      <<"/", "s", "/", "$", "1", "/", "$", "1">>>>,
    \* "/p/*": "/q/$1"
    <<<<"/", "p", "/", "*">>,
      <<"/", "q", "/", "$", "1">>>>,
    \* "/m/*/*": "/n/$1/$2"
    <<<<"/", "m", "/", "*", "/", "*">>,
      <<"/", "n", "/", "$", "1", "/", "$", "2">>>>,
    \* "/t/:a/:b": "/v/:b/:a"
    <<<<"/", "t", "/", ":", "a", "/", ":", "b">>,
      <<"/", "v", "/", ":", "b", "/", ":", "a">>>>,
    \* "/p/*": "/w?x=$1"
    <<<<"/", "p", "/", "*">>,
      <<"/", "w", "?", "x", "=", "$", "1">>>>>>

\* request URLs whose captured text is plain, or reads as a placeholder or
\* as a replacement pattern
SubstitutionUrls == <<
    \* /posts/7
    <<"/", "p", "o", "s", "t", "s", "/", "7">>,
    \* /t/x/y
    <<"/", "t", "/", "x", "/", "y">>,
    \* /t/:b/x
    <<"/", "t", "/", ":", "b", "/", "x">>,
    \* /t/y/:a
    <<"/", "t", "/", "y", "/", ":", "a">>,
    \* /r/k
    <<"/", "r", "/", "k">>,
    \* /p/k
    <<"/", "p", "/", "k">>,
    \* /p/$&
    <<"/", "p", "/", "$", "&">>,
    \* /p/$$
    <<"/", "p", "/", "$", "$">>,
    \* /m/a/b
    <<"/", "m", "/", "a", "/", "b">>,
    \* /m/$2/z
    <<"/", "m", "/", "$", "2", "/", "z">>,
    \* /p/k?z=1
    <<"/", "p", "/", "k", "?", "z", "=", "1">>>>

\* rewriteUrl on the request's URL with the one rule; a URL the rule does
\* not match is left as it is
RewriteUrl ==
    /\ ~handled
    /\ outUrl' = IF rewriteUrl(reqUrl, sortedRules[1][1], sortedRules[1][2]).matched
                 THEN rewriteUrl(reqUrl, sortedRules[1][1], sortedRules[1][2]).url
                 ELSE reqUrl
    /\ handled' = TRUE
    /\ UNCHANGED <<routesFile, loadError, sortedRules, started, reqUrl>>
    /\ UNCHANGED queryVars
    /\ UNCHANGED routerVars
    /\ UNCHANGED writeVars
    /\ UNCHANGED relationVars

InitSubstitute ==
    /\ routesFile = 0
    /\ loadError = NoError
    /\ \E r \in 1..Len(SubstitutionRules) : sortedRules = <<SubstitutionRules[r]>>
    /\ started = TRUE
    /\ \E u \in 1..Len(SubstitutionUrls) : reqUrl = SubstitutionUrls[u]
    /\ outUrl = <<>>
    /\ handled = FALSE
    /\ InitQuery
    /\ InitRouter
    /\ InitRelations

NextSubstitute == RewriteUrl

SpecSubstitute == InitSubstitute /\ [][NextSubstitute]_vars

(***************************************************************************)
(* Properties of the rewriter                                              *)
(***************************************************************************)

\* Object.entries(rules) of the loaded routes file, in declaration order
DeclaredRules == loadRewriteRules(RoutesFiles[routesFile]).rules

\* the positions in `rules` of the rules rewriteUrl matches against url
MatchingRules(rules, url) ==
    {i \in 1..Len(rules) : rewriteUrl(url, rules[i][1], rules[i][2]).matched}

MinOf(S) == CHOOSE i \in S : \A j \in S : i <= j

\* the number of occurrences of character c in s
RECURSIVE CountChar(_, _)
CountChar(s, c) ==
    IF s = <<>> THEN 0 ELSE (IF Head(s) = c THEN 1 ELSE 0) + CountChar(Tail(s), c)

Claim_C2 ==
    handled =>
        /\ outUrl = rewriterHandler(DeclaredRules, reqUrl)
        /\ (routesFile = 3 /\ reqUrl = RequestUrls[1]) => outUrl = <<"/", "a", "r", "t", "i", "c", "l", "e", "s", "/", "1", "2", "3">>

\* the rule the middleware applied: the first rule of sortedRules that matches
\* (0: none)
AppliedRule ==
    IF MatchingRules(sortedRules, reqUrl) = {} THEN 0
    ELSE MinOf(MatchingRules(sortedRules, reqUrl))

\* C3: when a rule matched, the request's query string is appended unchanged
\* iff the "to" pattern has no query string of its own; otherwise the result
\* has the query of "to" alone, so that it never holds two '?'
Claim_C3 ==
    (handled /\ AppliedRule # 0) =>
        /\ CountChar(outUrl, "?") <= 1
        /\ ~Includes(sortedRules[AppliedRule][2], <<"?">>) =>
               QueryOf(outUrl) = QueryOf(reqUrl)

\* the names of the capture groups of a compiled pattern in the order of the
\* groups: a :name group carries its name, a '*' group its $k
RECURSIVE GroupNames(_, _, _)
GroupNames(regex, names, k) ==
    IF regex = <<>> THEN <<>>
    ELSE IF Head(regex) = ParamGroup
         THEN <<Head(names)>> \o GroupNames(Tail(regex), Tail(names), k + 1)
    ELSE IF Head(regex) = WildGroup
         THEN <<(<<"$">> \o NumToString(k))>> \o GroupNames(Tail(regex), names, k + 1)
    ELSE GroupNames(Tail(regex), names, k)

\* C4: with '*' and ':name' mixed in "from" in any order, $k is the k-th
\* capture from the left and every :name of "to" is replaced by the text
\* matched at that :name's own position in "from"
Claim_C4 ==
    (handled /\ AppliedRule # 0 /\ QueryOf(sortedRules[AppliedRule][1]) = <<>>) =>
        LET from == sortedRules[AppliedRule][1]
            to == sortedRules[AppliedRule][2]
            compiled == patternToRegex(PathOf(from))
            captures == Match(compiled.regex, PathOf(reqUrl)).captures
            names == GroupNames(compiled.regex, ReplaceParams(EscapeRegex(PathOf(from))).params, 1)
            substituted == SubstituteParams(SubstituteCaptures(to, captures, 1),
                                            names, captures, 1)
        IN  outUrl = IF QueryOf(reqUrl) # <<>>
                     THEN substituted \o <<"?">> \o QueryOf(reqUrl)
                     ELSE substituted

\* the gate of a rule as the claim states it: the path matches and, when
\* "from" declares a query, every declared key is in the request's query and
\* every declared value other than '*' equals the request's value
Gate(from, url) ==
    /\ Match(patternToRegex(PathOf(from)).regex, PathOf(url)).ok
    /\ QueryOf(from) # <<>> =>
           LET declared == URLSearchParams(QueryOf(from))
               given == URLSearchParams(QueryOf(url))
           IN  \A i \in 1..Len(declared) :
                   /\ ParamsHas(given, declared[i][1])
                   /\ declared[i][2] # <<"*">> =>
                          ParamsGet(given, declared[i][1]) = declared[i][2]

\* the request's values under the keys "from" declares with '*', in the
\* order "from" declares them
StarValues(from, url) ==
    LET declared == URLSearchParams(QueryOf(from))
        given == URLSearchParams(QueryOf(url))
        stars == SelectSeq(declared, LAMBDA d : d[2] = <<"*">>)
    IN  [i \in 1..Len(stars) |-> ParamsGet(given, stars[i][1])]

\* C5: a rule whose "from" declares a query string is applied only through
\* its gate, the values under its '*' keys are the captures numbered after
\* the path captures, and a request that fails the gate is left to the
\* remaining rules: the middleware's result is that of the first rule, in
\* its order, whose gate the request passes
Inv_C5 ==
    handled =>
        LET passing == {i \in 1..Len(sortedRules) : Gate(sortedRules[i][1], reqUrl)}
        IN  IF passing = {} THEN outUrl = reqUrl
            ELSE LET from == sortedRules[MinOf(passing)][1]
                     to == sortedRules[MinOf(passing)][2]
                     compiled == patternToRegex(PathOf(from))
                     captures == Match(compiled.regex, PathOf(reqUrl)).captures
                                 \o StarValues(from, reqUrl)
                     substituted == SubstituteParams(SubstituteCaptures(to, captures, 1),
                                                     compiled.params, captures, 1)
                 IN  /\ outUrl = IF QueryOf(from) = <<>> /\ QueryOf(reqUrl) # <<>>
                                 THEN substituted \o <<"?">> \o QueryOf(reqUrl)
                                 ELSE substituted
                     /\ \A i \in 1..Len(sortedRules) :
                            (QueryOf(sortedRules[i][1]) # <<>>
                             /\ ~Gate(sortedRules[i][1], reqUrl)) => AppliedRule # i

\* C5 witness: /a/b?k=w fails the literal gate of "/a/*?k=v", passes
\* "/a/*?k=*" and its value w is capture $2, after the path capture b
Witness_C5 ==
    /\ handled
    /\ routesFile = 5
    /\ reqUrl = RequestUrls[6]
    /\ outUrl = <<"/", "r", "/", "b", "?", "v", "=", "w">>

\* C6: at most one rule is applied per request, the first that matches, and
\* its result is not matched against the rules again; when no rule matches
\* the URL is left exactly as received
Inv_C6 ==
    handled =>
        IF AppliedRule = 0 THEN outUrl = reqUrl
        ELSE outUrl = rewriteUrl(reqUrl, sortedRules[AppliedRule][1],
                                 sortedRules[AppliedRule][2]).url

\* C6 witness: /a/b was rewritten to /b/b by "/a/*", and /b/b, which "/b/*"
\* matches, was not rewritten again
Witness_C6 ==
    /\ handled
    /\ routesFile = 7
    /\ reqUrl = RequestUrls[4]
    /\ outUrl = <<"/", "b", "/", "b">>
    /\ MatchingRules(sortedRules, outUrl) # {}

\* C7: a routes file with a non-string target is rejected when it is loaded,
\* with an error that names a rule whose target is not a string, and no
\* request is rewritten with it; a file whose targets are all strings is
\* accepted
Inv_C7 ==
    (routesFile # 0 /\ RoutesFiles[routesFile].kind = "object") =>
        LET entries == RoutesFiles[routesFile].entries
            offending == {i \in 1..Len(entries) : entries[i].value.t # "string"}
        IN  IF offending # {}
            THEN /\ loadError.thrown
                 /\ \E i \in offending : loadError.key = entries[i].key
                 /\ ~started
                 /\ ~handled
                 /\ sortedRules = <<>>
            ELSE /\ ~loadError.thrown
                 /\ started
                 /\ Len(sortedRules) = Len(entries)

\* C7 witness: {"/me": "/profile", "/api/*": 123, "/x": true} was rejected
\* with an error naming "/api/*"
Witness_C7 ==
    /\ routesFile = 9
    /\ loadError.thrown
    /\ loadError.key = <<"/", "a", "p", "i", "/", "*">>

(***************************************************************************)
(* Properties of the query engine                                          *)
(***************************************************************************)

\* the number of positions of list s that hold record r
Occurrences(s, r) == Cardinality({i \in 1..Len(s) : s[i] = r})

\* a record satisfies an exact filter as the claims state it: its stringified
\* value at the filter's path is the single value, or one of the values
SatisfiesFilter(item, filter) ==
    \E m \in 1..Len(filter[2].values) :
        JsString(getNestedValue(item, filter[1])) = filter[2].values[m]

\* a record passes the search, every exact filter and every operator
Passes(item, options) ==
    /\ options.q # <<>> => matchesSearch(item, options.q)
    /\ \A k \in 1..Len(options.filters) : SatisfiesFilter(item, options.filters[k])
    /\ matchesOperators(item, options.operators)

\* C8: every record applyQuery returns is a record of the input and satisfies
\* every filter key (one of the values of a multi-valued key), and before
\* the window the result holds every input record that passes the search,
\* the filters and the operators, as often as the input holds it
Inv_C8 ==
    qDone =>
        /\ \A i \in 1..Len(qResult) :
               /\ \E j \in 1..Len(qData) : qData[j] = qResult[i]
               /\ \A k \in 1..Len(qOptions.filters) :
                      SatisfiesFilter(qResult[i], qOptions.filters[k])
        /\ \A j \in 1..Len(qData) :
               Occurrences(qSorted, qData[j])
                   = IF Passes(qData[j], qOptions) THEN Occurrences(qData, qData[j]) ELSE 0

\* C8 witness: a multi-valued filter kept records with different values and
\* dropped others
Witness_C8 ==
    /\ qDone
    /\ Len(qOptions.filters) = 1
    /\ qOptions.filters[1][2].multi
    /\ Len(qResult) >= 2
    /\ Len(qResult) < Len(qData)
    /\ \E i, j \in 1..Len(qResult) :
           JsString(getNestedValue(qResult[i], qOptions.filters[1][1]))
               # JsString(getNestedValue(qResult[j], qOptions.filters[1][1]))

\* the (dotted) path is present in the record: every key is a field of the
\* object reached so far
RECURSIVE HasPath(_, _)
HasPath(v, keys) ==
    IF keys = <<>> THEN TRUE
    ELSE /\ v.t = "object"
         /\ Head(keys) \in DOMAIN v.o
         /\ HasPath(v.o[Head(keys)], Tail(keys))

\* C9: a record in which the path of an exact filter is missing is never
\* returned, whatever the filter's value
Claim_C9 ==
    qDone =>
        \A i \in 1..Len(qResult) :
            \A k \in 1..Len(qOptions.filters) :
                HasPath(qResult[i], Split(qOptions.filters[k][1], "."))

\* C10: total is the number of input records that pass the search, the
\* filters and the operators, whatever page, limit, start, end and sort are
Inv_C10 ==
    qDone =>
        qTotal = Cardinality({j \in 1..Len(qData) : Passes(qData[j], qOptions)})

\* C10 witness: the filters dropped records, the result was sorted, and the
\* window cut the sorted list further
Witness_C10 ==
    /\ qDone
    /\ qOptions.sort # <<>>
    /\ 0 < Len(qResult)
    /\ Len(qResult) < qTotal
    /\ qTotal < Len(qData)

(***************************************************************************)
(* Properties of the sort                                                  *)
(***************************************************************************)

\* the record's value for sort field k of the request
SortValue(item, k) == getNestedValue(item, qOptions.sort[k])

\* sort field k is sorted descending: its order, at the same index, is desc
Descending(k) ==
    k <= Len(qOptions.order) /\ qOptions.order[k] = <<"d", "e", "s", "c">>

Tied(a, b) ==
    \A k \in 1..Len(qOptions.sort) : SortValue(a, k) = SortValue(b, k)

\* the sort fields on which two records differ
Differing(a, b) ==
    {k \in 1..Len(qOptions.sort) : SortValue(a, k) # SortValue(b, k)}

\* a comes before b by sort field k and its direction
Before(a, b, k) ==
    IF Descending(k) THEN JsLess(SortValue(b, k), SortValue(a, k))
    ELSE JsLess(SortValue(a, k), SortValue(b, k))

\* C12: the sorted list holds the records of the input; two records that
\* differ are ordered by the first sort field on which they differ, in the
\* direction of the order at the same index, ascending when there is none;
\* records equal on all sort fields keep their input order
Inv_C12 ==
    (qDone /\ Len(qOptions.sort) > 0) =>
        /\ \A r \in SortRecords : Occurrences(qSorted, r) = Occurrences(qData, r)
        /\ \A i, j \in 1..Len(qSorted) :
               (/\ i < j
                /\ Differing(qSorted[i], qSorted[j]) # {}
                /\ SortValue(qSorted[i], MinOf(Differing(qSorted[i], qSorted[j]))).t
                       # "undefined"
                /\ SortValue(qSorted[j], MinOf(Differing(qSorted[i], qSorted[j]))).t
                       # "undefined")
                   => Before(qSorted[i], qSorted[j],
                             MinOf(Differing(qSorted[i], qSorted[j])))
        /\ \A r \in SortRecords :
               SelectSeq(qSorted, LAMBDA x : Tied(x, r))
                   = SelectSeq(qData, LAMBDA x : Tied(x, r))

\* C12 witness: sorted by author ascending and views descending, two records
\* of one author changed places by their views, and two different records
\* equal on both fields were in the input
Witness_C12 ==
    /\ qDone
    /\ Len(qOptions.sort) = 2
    /\ Descending(2) /\ ~Descending(1)
    /\ \E i, j \in 1..Len(qData) :
           i < j /\ qData[i] # qData[j] /\ Tied(qData[i], qData[j])
    /\ \E i, j \in 1..Len(qData) :
           /\ i < j
           /\ Differing(qData[i], qData[j]) = {2}
           /\ Before(qData[j], qData[i], 2)
    /\ qSorted # qData

(***************************************************************************)
(* Properties of the window                                                *)
(***************************************************************************)

\* the positions [from, to) of the sorted, filtered list, counted from 0
Positions(from, to) ==
    LET last == IF to > Len(qSorted) THEN Len(qSorted) ELSE to
        count == IF last > from THEN last - from ELSE 0
    IN  [i \in 1..count |-> qSorted[from + i]]

WithinBound(item, field, operator, value) ==
    LET n == JsNumber(getNestedValue(item, field))
        v == StringToNumber(value)
    IN  /\ ~n.nan
        /\ operator = "gte" => n.n >= v.n
        /\ operator = "lte" => n.n <= v.n

\* C16: every record returned under field_gte=v or field_lte=v has a value
\* for the field that, as a number, is >= v or <= v; a record without the
\* field, or with a value that is not a number, is not returned
Claim_C16 ==
    qDone =>
        \A i \in 1..Len(qResult) :
            \A k \in 1..Len(qOptions.operators) :
                \A m \in 1..Len(qOptions.operators[k][2]) :
                    qOptions.operators[k][2][m][1] \in {"gte", "lte"} =>
                        WithinBound(qResult[i], qOptions.operators[k][1],
                                    qOptions.operators[k][2][m][1],
                                    qOptions.operators[k][2][m][2])

(***************************************************************************)
(* Properties of GET /:resource                                            *)
(***************************************************************************)

\* the request was for a collection and was answered
Answered == resStatus = 200 /\ getCollection(dbData, reqResource).t = "array"

\* the collection's records that pass the request's criteria, sorted: the
\* list the window is cut from
Listed ==
    SortStage(FilterStage(getCollection(dbData, reqResource).a, queryOptions),
              queryOptions)

\* the positions [from, to) of Listed, counted from 0
ListedPositions(from, to) ==
    LET last == IF to > Len(Listed) THEN Len(Listed) ELSE to
        count == IF last > from THEN last - from ELSE 0
    IN  [i \in 1..count |-> Listed[from + i]]

\* the request has the parameter
Has(key) == \E i \in 1..Len(reqQuery) : reqQuery[i][1] = key

\* C14: a request with _start and _limit and no _end is answered with
\* _limit records from position _start on
Claim_C14 ==
    (/\ Answered
     /\ queryOptions.start.defined
     /\ queryOptions.limit.defined
     /\ ~Has(<<"_", "e", "n", "d">>)
     /\ ~Has(<<"_", "p", "a", "g", "e">>)) =>
        resBody.a = ListedPositions(queryOptions.start.n,
                                    queryOptions.start.n + queryOptions.limit.n)

\* the limit the README gives a request with _page and no _limit
DefaultLimit == 10

\* C15: a request with _page and no _limit is answered with that page of
\* DefaultLimit records, and with a Link header
Claim_C15 ==
    (/\ Answered
     /\ queryOptions.page.defined
     /\ ~Has(<<"_", "l", "i", "m", "i", "t">>)
     /\ ~Has(<<"_", "s", "t", "a", "r", "t">>)
     /\ ~Has(<<"_", "e", "n", "d">>)) =>
        /\ resBody.a = ListedPositions((queryOptions.page.n - 1) * DefaultLimit,
                                       queryOptions.page.n * DefaultLimit)
        /\ resLink # <<>>

(***************************************************************************)
(* Properties of parseQuery                                                *)
(***************************************************************************)

\* the value the request gives the parameter (its first, when it has several)
ValueOf(key) ==
    reqQuery[CHOOSE i \in 1..Len(reqQuery) : reqQuery[i][1] = key][2].values[1]

\* the descriptor has an exact filter under the key
Filtered(key) ==
    \E i \in 1..Len(queryOptions.filters) : queryOptions.filters[i][1] = key

\* the request's value for the parameter reads as an integer of at least
\* `least`
InRange(key, least) ==
    ~parseInt(ValueOf(key)).nan /\ parseInt(ValueOf(key)).n >= least

\* a window bound that is present is at least `least`; a value of the
\* parameter that is no integer, or a smaller one, leaves the descriptor
\* without the bound and without a filter under the parameter's name
Dropped(key, bound, least) ==
    /\ bound.defined => bound.n >= least
    /\ (Has(key) /\ ~InRange(key, least)) => (~bound.defined /\ ~Filtered(key))

\* C17: in the descriptor parseQuery returns, page and limit are > 0 and
\* start and end are >= 0 when present, and a _page, _limit, _start or _end
\* that is empty, not an integer or out of range is dropped: it is neither a
\* window bound nor an exact filter
Claim_C17 ==
    Answered =>
        /\ Dropped(<<"_", "p", "a", "g", "e">>, queryOptions.page, 1)
        /\ Dropped(<<"_", "l", "i", "m", "i", "t">>, queryOptions.limit, 1)
        /\ Dropped(<<"_", "s", "t", "a", "r", "t">>, queryOptions.start, 0)
        /\ Dropped(<<"_", "e", "n", "d">>, queryOptions.end, 0)

\* req.query without the parameter
Without(query, key) == SelectSeq(query, LAMBDA entry : entry[1] # key)

\* C18: a q that is empty or all spaces is no free-text query, and its
\* request is answered with the records and the total of the same request
\* without q
Claim_C18 ==
    (Answered /\ Has(<<"q">>) /\ Trim(ValueOf(<<"q">>)) = <<>>) =>
        LET query == Without(reqQuery, <<"q">>)
            applied == applyQuery(getCollection(dbData, reqResource).a, parseQuery(query))
            relations == parseRelationships(query)
        IN  /\ queryOptions.q = <<>>
            /\ resTotal = NumToString(applied.total)
            /\ resBody = Arr(applyRelationships(applied.data, reqResource,
                                                relations.embed, relations.expand,
                                                dbData, idField, foreignKeySuffix))

(***************************************************************************)
(* Properties of the Link header                                           *)
(***************************************************************************)

\* the entries of the Link header, each '<url>; rel="name"': the URLs hold no
\* comma, so the entries are the pieces between commas without the space
\* that follows a comma
LinkEntries ==
    IF resLink = <<>> THEN <<>>
    ELSE [i \in 1..Len(Split(resLink, ",")) |-> TrimLeft(Split(resLink, ",")[i])]

\* the URL of an entry, between '<' and '>'
LinkUrl(entry) == SubSeq(entry, 2, IndexOf(entry, <<">">>) - 1)

\* the rel of an entry, between the quotes
LinkRel(entry) ==
    SubSeq(entry, IndexOf(entry, <<"r", "e", "l", "=", "\"">>) + Len(<<"r", "e", "l", "=", "\"">>), Len(entry) - 1)

\* percent-decoding of the one escape the model's URLs carry
RECURSIVE PercentDecode(_)
PercentDecode(s) ==
    IF s = <<>> THEN <<>>
    ELSE IF StartsWith(s, <<"%", "2", "C">>) THEN <<",">> \o PercentDecode(Drop(s, 3))
    ELSE <<Head(s)>> \o PercentDecode(Tail(s))

\* the query parameters a client reads from an entry's URL
LinkParams(entry) ==
    LET pairs == URLSearchParams(QueryOf(LinkUrl(entry)))
    IN  [i \in 1..Len(pairs) |->
             <<PercentDecode(pairs[i][1]), PercentDecode(pairs[i][2])>>]

\* the query parameters of the request, a pair per value
RECURSIVE Pairs(_)
Pairs(query) ==
    IF query = <<>> THEN <<>>
    ELSE [i \in 1..Len(Head(query)[2].values) |->
              <<Head(query)[1], Head(query)[2].values[i]>>]
         \o Pairs(Tail(query))

\* a list of parameters without _page and _limit
Unpaged(pairs) ==
    SelectSeq(pairs, LAMBDA pair : pair[1] \notin {<<"_", "p", "a", "g", "e">>, <<"_", "l", "i", "m", "i", "t">>})

\* the rels of the header
Rels == {LinkRel(LinkEntries[i]) : i \in 1..Len(LinkEntries)}

\* the rels are first and last, prev exactly when page > 1, and next exactly
\* when page < ceil(total / limit)
RelsAsPaged ==
    /\ <<"f", "i", "r", "s", "t">> \in Rels
    /\ <<"l", "a", "s", "t">> \in Rels
    /\ <<"p", "r", "e", "v">> \in Rels <=> queryOptions.page.n > 1
    /\ <<"n", "e", "x", "t">> \in Rels
           <=> queryOptions.page.n * queryOptions.limit.n < DigitsValue(resTotal)
    /\ Rels \subseteq {<<"f", "i", "r", "s", "t">>, <<"p", "r", "e", "v">>, <<"n", "e", "x", "t">>, <<"l", "a", "s", "t">>}

\* C19: the Link header has a first and a last entry, a prev entry exactly
\* when page > 1 and a next entry exactly when page < ceil(total / limit);
\* every entry has the request's parameters other than _page and _limit
\* unchanged, and _limit is the limit
Claim_C19 ==
    (Answered /\ resLink # <<>>) =>
        /\ RelsAsPaged
        /\ \A i \in 1..Len(LinkEntries) :
               /\ Unpaged(LinkParams(LinkEntries[i])) = Unpaged(Pairs(reqQuery))
               /\ ParamsHas(LinkParams(LinkEntries[i]), <<"_", "l", "i", "m", "i", "t">>)
               /\ ParamsGet(LinkParams(LinkEntries[i]), <<"_", "l", "i", "m", "i", "t">>)
                      = NumToString(queryOptions.limit.n)

(***************************************************************************)
(* Properties of embedChildren                                             *)
(***************************************************************************)

\* the name of the foreign key: the parent collection's name without one
\* trailing 's', then the suffix
ForeignKeyName ==
    (IF relParent[Len(relParent)] = "s" THEN SubSeq(relParent, 1, Len(relParent) - 1)
     ELSE relParent) \o relSuffix

\* the child record names the parent: it has the foreign key, and the key
\* and the parent's id are the same once both are text
Names(child, parent) ==
    /\ ForeignKeyName \in DOMAIN child.o
    /\ JsString(child.o[ForeignKeyName]) = JsString(parent.o[idField])

\* the children of the store's collection, when it is one
ChildRecords == getCollection(dbData, relChild).a

\* C20: embed gives every parent a field named as the child collection, the
\* list in the collection's order of the children whose foreign key is the
\* parent's id, "1" and 1 being the same; the list is empty when there is
\* none, and the parent's other fields are as they were
Inv_C20 ==
    (relDone /\ getCollection(dbData, relChild).t = "array") =>
        /\ Len(relResult) = Len(relItems)
        /\ \A i \in 1..Len(relItems) :
               /\ DOMAIN relResult[i].o = DOMAIN relItems[i].o \cup {relChild}
               /\ relResult[i].o[relChild]
                      = Arr(SelectSeq(ChildRecords,
                                      LAMBDA child : Names(child, relItems[i])))
               /\ \A key \in DOMAIN relItems[i].o \ {relChild} :
                      relResult[i].o[key] = relItems[i].o[key]

\* C20 witness: one parent got two children, one of which has its foreign
\* key as text and the other as a number, and another parent got none
Witness_C20 ==
    /\ relDone
    /\ getCollection(dbData, relChild).t = "array"
    /\ \E i \in 1..Len(relResult) :
           LET embedded == relResult[i].o[relChild].a
           IN  /\ Len(embedded) = 2
               /\ embedded[1].o[ForeignKeyName].t # embedded[2].o[ForeignKeyName].t
    /\ \E i \in 1..Len(relResult) : relResult[i].o[relChild] = Arr(<<>>)

\* C21: embedding a child collection the store does not have, or has as a
\* singular resource, gives every parent an empty list under that name
Claim_C21 ==
    (relDone /\ getCollection(dbData, relChild).t # "array") =>
        /\ Len(relResult) = Len(relItems)
        /\ \A i \in 1..Len(relResult) :
               /\ relChild \in DOMAIN relResult[i].o
               /\ relResult[i].o[relChild] = Arr(<<>>)

(***************************************************************************)
(* Properties of expandParent                                              *)
(***************************************************************************)

\* the name of the attached field: the parent collection's name without one
\* trailing 's'
ParentField ==
    IF relParent[Len(relParent)] = "s" THEN SubSeq(relParent, 1, Len(relParent) - 1)
    ELSE relParent

\* the positions, in the store's parent collection, of the records whose id
\* is the child's foreign key once both are text; none when the child has no
\* foreign key or the store has no such collection
ParentsOf(child) ==
    IF getCollection(dbData, relParent).t # "array" \/ ForeignKeyName \notin DOMAIN child.o
    THEN {}
    ELSE {k \in 1..Len(getCollection(dbData, relParent).a) :
              JsString(getCollection(dbData, relParent).a[k].o[idField])
                  = JsString(child.o[ForeignKeyName])}

ExpandsPost ==
    reqQuery = <<<<<<"_", "e", "x", "p", "a", "n", "d">>, Single(<<"p", "o", "s", "t">>)>>>>

\* the records of posts whose id is the record's postId, once both are text
PostsOf(record) ==
    {k \in 1..Len(getCollection(dbData, <<"p", "o", "s", "t", "s">>).a) :
         JsString(getCollection(dbData, <<"p", "o", "s", "t", "s">>).a[k].o[idField])
             = JsString(record.o[<<"p", "o", "s", "t", "I", "d">>])}

\* C23: a comment requested with _expand=post is answered with a field post
\* holding the record of posts whose id is the comment's postId
Claim_C23 ==
    (/\ resStatus = 200
     /\ reqResource = <<"c", "o", "m", "m", "e", "n", "t", "s">>
     /\ ExpandsPost
     /\ <<"p", "o", "s", "t", "I", "d">>
            \in DOMAIN getById(dbData, reqResource, Str(reqId)).o
     /\ PostsOf(getById(dbData, reqResource, Str(reqId))) # {}) =>
        /\ <<"p", "o", "s", "t">> \in DOMAIN resBody.o
        /\ \E k \in PostsOf(getById(dbData, reqResource, Str(reqId))) :
               resBody.o[<<"p", "o", "s", "t">>]
                   = getCollection(dbData, <<"p", "o", "s", "t", "s">>).a[k]

(***************************************************************************)
(* Properties of embedChildren followed by expandParent                    *)
(***************************************************************************)

\* the store's parents have pairwise different ids, also as text, and every
\* child names, in the foreign key, a parent that is there
Consistent ==
    LET parents == getCollection(dbData, relParent).a
        children == getCollection(dbData, relChild).a
    IN  /\ \A j, k \in 1..Len(parents) :
               JsString(Field(parents[j], idField)) = JsString(Field(parents[k], idField))
                   => j = k
        /\ \A c \in 1..Len(children) :
               /\ ForeignKeyName \in DOMAIN children[c].o
               /\ \E k \in 1..Len(parents) :
                      JsString(parents[k].o[idField]) = JsString(children[c].o[ForeignKeyName])

\* C24: on consistent data every child embedded under a stored parent has,
\* once the parent collection is expanded out of it, that stored parent in
\* the field named after the parent
Inv_C24 ==
    (relExpanded.done /\ Consistent) =>
        \A i \in 1..Len(relResult) :
            /\ Len(relExpanded.lists[i]) = Len(relResult[i].o[relChild].a)
            /\ \A c \in 1..Len(relExpanded.lists[i]) :
                   /\ Singular(relParent) \in DOMAIN relExpanded.lists[i][c].o
                   /\ relExpanded.lists[i][c].o[Singular(relParent)] = relItems[i]

\* on consistent data a parent whose id is a number got a child that names it
\* by text, and the parent came back out of that child
Witness_C24 ==
    /\ relExpanded.done
    /\ Consistent
    /\ \E i \in 1..Len(relResult) :
           \E c \in 1..Len(relExpanded.lists[i]) :
               /\ relItems[i].o[idField].t = "number"
               /\ relExpanded.lists[i][c].o[ForeignKeyName].t = "string"
               /\ relExpanded.lists[i][c].o[Singular(relParent)] = relItems[i]

(***************************************************************************)
(* Properties of the calls on a caller's list                              *)
(***************************************************************************)

SameAsText(a, b) == JsString(a) = JsString(b)

\* no two records of the list have ids that are the same as text
DistinctIds(records) ==
    \A j, k \in 1..Len(records) :
        SameAsText(Field(records[j], idField), Field(records[k], idField)) => j = k

\* the last call was a create whose data has the id of a record that was
\* there
CreatedPresent ==
    /\ dbCall.op = "create"
    /\ dbCall.before.t = "array"
    /\ idField \in DOMAIN dbCall.data.o
    /\ \E k \in 1..Len(dbCall.before.a) :
           SameAsText(Field(dbCall.before.a[k], idField), dbCall.data.o[idField])

\* C30: the ids of a collection stay different as text through create,
\* update, patch and delete; a create with an id that is there throws and
\* leaves the collection as it was; update and patch leave every id as it was
Claim_C30 ==
    /\ \A name \in DOMAIN dbData :
           dbData[name].t = "array" => DistinctIds(dbData[name].a)
    /\ CreatedPresent =>
           /\ dbCall.thrown
           /\ dbData[dbCall.collectionName] = dbCall.before
    /\ (dbCall.op \in {"update", "patch"} /\ dbCall.before.t = "array") =>
           /\ Len(dbData[dbCall.collectionName].a) = Len(dbCall.before.a)
           /\ \A k \in 1..Len(dbCall.before.a) :
                  Field(dbData[dbCall.collectionName].a[k], idField)
                      = Field(dbCall.before.a[k], idField)

(***************************************************************************)
(* Properties of the read-only mode                                        *)
(***************************************************************************)

\* the last request was a POST, PUT, PATCH or DELETE
Writing == reqMethod \in {"POST", "PUT", "PATCH", "DELETE"}

\* the number of segments of the last request's path
PathSegments ==
    1 + (IF reqId = <<>> THEN 0 ELSE 1) + (IF reqChildren = <<>> THEN 0 ELSE 1)

\* the last request was a GET and was answered as the initial store says:
\* a resource as it is stored, a record by its id, 404 for what is not there
ServedNormally ==
    IF reqId = <<>>
    THEN IF reqResource \in DOMAIN WriteStore
         THEN resStatus = 200 /\ resBody = WriteStore[reqResource]
         ELSE resStatus = 404
    ELSE IF getById(WriteStore, reqResource, Str(reqId)).t = "object"
         THEN resStatus = 200 /\ resBody = getById(WriteStore, reqResource, Str(reqId))
         ELSE resStatus = 404

Stored(record, names) ==
    Obj([key \in DOMAIN record.o \ {name \in names : \A k \in 1..Len(getCollection(dbData, reqResource).a) :
                                        name \notin DOMAIN getCollection(dbData, reqResource).a[k].o}
             |-> record.o[key]])

\* C27: a collection GET with _embed is answered with the records, in the
\* order, and with the X-Total-Count of the same request without it
Claim_C27 ==
    (Answered /\ Has(<<"_", "e", "m", "b", "e", "d">>)) =>
        LET query == Without(reqQuery, <<"_", "e", "m", "b", "e", "d">>)
            applied == applyQuery(getCollection(dbData, reqResource).a, parseQuery(query))
        IN  /\ resTotal = NumToString(applied.total)
            /\ Len(resBody.a) = Len(applied.data)
            /\ \A i \in 1..Len(resBody.a) :
                   Stored(resBody.a[i], {ValueOf(<<"_", "e", "m", "b", "e", "d">>)})
                       = applied.data[i]

(***************************************************************************)
(* Properties of the substitution                                          *)
(***************************************************************************)

\* the captures a placeholder of the target starts with: $k is capture k,
\* :name the capture of the k-th parameter when that is its name
PlaceholdersAt(to, params, captures) ==
    {k \in 1..Len(captures) :
         \/ StartsWith(to, <<"$">> \o NumToString(k))
         \/ /\ k <= Len(params)
            /\ params[k] # <<>>
            /\ Head(params[k]) # "$"
            /\ StartsWith(to, <<":">> \o params[k])}

\* the target with every placeholder replaced by its capture, each place of
\* the target read once, from left to right
RECURSIVE Simultaneous(_, _, _)
Simultaneous(to, params, captures) ==
    IF to = <<>> THEN <<>>
    ELSE IF PlaceholdersAt(to, params, captures) = {}
    THEN <<Head(to)>> \o Simultaneous(Tail(to), params, captures)
    ELSE LET k == CHOOSE i \in PlaceholdersAt(to, params, captures) :
                      \A j \in PlaceholdersAt(to, params, captures) : i <= j
             length == IF Head(to) = "$" THEN 1 + Len(NumToString(k))
                       ELSE 1 + Len(params[k])
         IN  captures[k] \o Simultaneous(Drop(to, length), params, captures)

\* the rule matches the request's path
RuleMatches ==
    Match(patternToRegex(PathOf(sortedRules[1][1])).regex, PathOf(reqUrl)).ok

\* C28: the rewritten URL is the target with every occurrence of every
\* placeholder replaced by its captured text, and captured text that reads
\* as a placeholder is not replaced again
Claim_C28 ==
    (handled /\ RuleMatches) =>
        LET compiled == patternToRegex(PathOf(sortedRules[1][1]))
            captures == Match(compiled.regex, PathOf(reqUrl)).captures
            replaced == Simultaneous(sortedRules[1][2], compiled.params, captures)
        IN  outUrl = IF QueryOf(reqUrl) # <<>>
                     THEN replaced \o <<"?">> \o QueryOf(reqUrl)
                     ELSE replaced

(***************************************************************************)
(* Properties of the pages of the Link header                              *)
(***************************************************************************)

\* the _page of an entry's URL, as a number
LinkPage(entry) ==
    LET params == LinkParams(entry)
    IN  StringToNumber(params[CHOOSE i \in 1..Len(params) :
                                  params[i][1] = <<"_", "p", "a", "g", "e">>][2])

\* the number of the last page: max(1, ceil(total / limit))
LastValidPage ==
    IF Ceil(StringToNumber(resTotal).n, queryOptions.limit.n) < 1 THEN 1
    ELSE Ceil(StringToNumber(resTotal).n, queryOptions.limit.n)

\* C29: the _page of every entry of the Link header is an integer between 1
\* and max(1, ceil(total / limit))
Claim_C29 ==
    (Answered /\ resLink # <<>>) =>
        \A i \in 1..Len(LinkEntries) :
            /\ ~LinkPage(LinkEntries[i]).nan
            /\ LinkPage(LinkEntries[i]).n >= 1
            /\ LinkPage(LinkEntries[i]).n <= LastValidPage
====
